---- MODULE Spec2Model ----
(***************************************************************************)
(* Signed-document subsystem of vibe2025:                                  *)
(*   signed_docs/model.py        Document, Paragraph, Signature            *)
(*   signed_docs/processor.py    DocumentProcessor (sign / verify)         *)
(*   signed_docs/service.py      SignedDocumentsService (trust registry)   *)
(*   signed_docs/crypto_utils.py sign_text / verify_signature              *)
(*                                                                         *)
(* Text values (str) are sequences of one-character strings, byte values   *)
(* (bytes) are sequences of integers 0..255.  The cryptography library is  *)
(* modelled as an ideal RSA-PSS scheme: SHA-256 is collision free (the     *)
(* digest is represented by the message bytes), and a signature verifies   *)
(* under a public key only if it was made by the matching private key over *)
(* the same message.                                                       *)
(***************************************************************************)
EXTENDS Integers, Sequences, FiniteSets, TLC

VARIABLES
    private_key,    \* DocumentProcessor.private_key (None or a key object)
    trusted_keys,   \* SignedDocumentsService.trusted_keys: signer id -> PEM
    trusted_order,  \* the keys of that dict in the order the dict holds them
    doc,            \* the document the caller currently holds (DocumentClient.current_document)
    sig,            \* the Signature artifact the caller currently holds (current_signature)
    signed,         \* history: the document and artifact of the last sign_document
    last,           \* the most recent call: its name, arguments, result or exception
    trusted_seen,   \* history: verify_document_signature accepted (doc, sig); see RemoveTrustedKey
    disk,           \* the file save_document_signature_pair wrote, with the pair it was given
    key_file,       \* the file save_private_key wrote, with the key it was given
    other_key,      \* the private_key of the caller's other DocumentProcessor
    callers,        \* the concurrent callers of the service: call, position, local values, result
    started_with,   \* history: trusted_keys when the concurrent callers started
    stores,         \* the EncryptedStoreService objects: master_password, _store, its key order, _opened, _salt
    store_file,     \* the file at the path the EncryptedStoreService objects share
    put_history     \* history: the puts behind each in-memory store and behind the file

vars == <<private_key, trusted_keys, trusted_order, doc, sig, signed, last, trusted_seen, disk, key_file, other_key, callers, started_with, stores, store_file, put_history>>

None == "None"

\* ------------------------------------------------------------------ text

\* Printable ASCII in code order: Ascii[i] is chr(31 + i) (chr(96), which a
\* TLA+ string cannot hold, is written GRAVE).
Ascii == <<" ", "!", "\"", "#", "$", "%", "&", "'", "(", ")", "*", "+", ",", "-", ".", "/", "0", "1", "2", "3", "4", "5", "6", "7", "8", "9", ":", ";", "<", "=", ">", "?", "@", "A", "B", "C", "D", "E", "F", "G", "H", "I", "J", "K", "L", "M", "N", "O", "P", "Q", "R", "S", "T", "U", "V", "W", "X", "Y", "Z", "[", "\\", "]", "^", "_", "GRAVE", "a", "b", "c", "d", "e", "f", "g", "h", "i", "j", "k", "l", "m", "n", "o", "p", "q", "r", "s", "t", "u", "v", "w", "x", "y", "z", "{", "|", "}", "~">>

AsciiChars == {Ascii[i] : i \in 1..Len(Ascii)}

Ord == [c \in AsciiChars |-> 31 + (CHOOSE i \in 1..Len(Ascii) : Ascii[i] = c)]

\* str.encode('utf-8'): one byte per ASCII character.
Utf8Encode(s) == [i \in 1..Len(s) |-> Ord[s[i]]]

RECURSIVE Concat(_)
\* "".join(parts)
Concat(parts) == IF parts = <<>> THEN <<>> ELSE Head(parts) \o Concat(Tail(parts))

\* Results of calls that may raise: a value, or the class of the exception.
Ok(v) == [ok |-> TRUE, val |-> v]
Raise(e) == [ok |-> FALSE, exc |-> e]

\* ------------------------------------------------------------------ hex

HexDigits == <<"0", "1", "2", "3", "4", "5", "6", "7", "8", "9", "a", "b", "c", "d", "e", "f">>
UpperHexDigits == <<"0", "1", "2", "3", "4", "5", "6", "7", "8", "9", "A", "B", "C", "D", "E", "F">>
HexChars == {HexDigits[i] : i \in 1..16} \cup {UpperHexDigits[i] : i \in 1..16}
AsciiWhitespace == {" "}

\* int(c, 16) of one hex digit, either case.
HexValue ==
    [c \in HexChars |->
        (CHOOSE i \in 1..16 : HexDigits[i] = c \/ UpperHexDigits[i] = c) - 1]

\* bytes.hex(): two lowercase hex digits per byte.
BytesHex(b) ==
    [i \in 1..(2 * Len(b)) |->
        IF i % 2 = 1 THEN HexDigits[(b[(i + 1) \div 2] \div 16) + 1]
        ELSE HexDigits[(b[i \div 2] % 16) + 1]]

\* bytes.fromhex(s): ASCII whitespace is skipped, then two hex digits per byte
\* (either case); anything else raises ValueError.
BytesFromHex(s) ==
    LET t == SelectSeq(s, LAMBDA c : c \notin AsciiWhitespace)
    IN  IF Len(t) % 2 # 0 \/ \E i \in 1..Len(t) : t[i] \notin HexChars
        THEN Raise("ValueError")
        ELSE Ok([i \in 1..(Len(t) \div 2) |-> 16 * HexValue[t[2 * i - 1]] + HexValue[t[2 * i]]])

\* ----------------------------------------------------------- data model

\* model.py: Document.id / parent_document_id are UUIDs; str(UUID) is the
\* 36-character form pydantic writes.
UUIDs == {"U1", "U2"}
UuidStr ==
    [u \in UUIDs |->
        IF u = "U1"
        THEN <<"6", "f", "1", "e", "2", "d", "3", "c", "-", "0", "0", "0", "0", "-", "4", "0", "0", "0", "-", "8", "0", "0", "0", "-", "0", "0", "0", "0", "0", "0", "0", "0", "0", "0", "0", "1">>
        ELSE <<"6", "f", "1", "e", "2", "d", "3", "c", "-", "0", "0", "0", "0", "-", "4", "0", "0", "0", "-", "8", "0", "0", "0", "-", "0", "0", "0", "0", "0", "0", "0", "0", "0", "0", "0", "2">>]

\* model.py: created_at / signed_at are datetimes; pydantic writes ISO 8601.
Datetimes == {"T1", "T2"}
DatetimeIso ==
    [t \in Datetimes |->
        IF t = "T1"
        THEN <<"2", "0", "2", "5", "-", "0", "1", "-", "0", "1", "T", "1", "2", ":", "0", "0", ":", "0", "0">>
        ELSE <<"2", "0", "2", "5", "-", "0", "1", "-", "0", "2", "T", "1", "2", ":", "0", "0", ":", "0", "0">>]

\* author_id / addressee_id / signator_id / signer_id values.
PersonIds == {1, 2}
SignerIds == {42, 999}

\* Paragraph strings: those of the tests and one that needs JSON escaping.
S_Dear == <<"D", "e", "a", "r">>
S_name == <<"n", "a", "m", "e">>
S_John == <<"J", "o", "h", "n", " ", "D", "o", "e">>
S_Jane == <<"J", "a", "n", "e", " ", "D", "o", "e">>
S_Quote == <<"\"", "\\">>

\* model.py Paragraph
Paragraph(fixed_text, placeholder, text) ==
    [fixed_text |-> fixed_text, placeholder |-> placeholder, text |-> text]

\* model.py Document
Document(id, parent, author, addressee, created, content) ==
    [id |-> id, parent_document_id |-> parent, author_id |-> author,
     addressee_id |-> addressee, created_at |-> created, content |-> content]

\* model.py Signature
Signature(document_id, json_version, signator_id, public_key, signature, signed_at) ==
    [document_id |-> document_id, json_version |-> json_version,
     signator_id |-> signator_id, public_key |-> public_key,
     signature |-> signature, signed_at |-> signed_at]

NoSignature == [absent |-> TRUE]

\* ------------------------------------------------------- canonical JSON

Digits == <<"0", "1", "2", "3", "4", "5", "6", "7", "8", "9">>

RECURSIVE IntStr(_)
\* JSON number of a non-negative int: its decimal digits.
IntStr(n) == IF n < 10 THEN <<Digits[n + 1]>> ELSE IntStr(n \div 10) \o <<Digits[(n % 10) + 1]>>

\* A string writer that quotes and escapes nothing.
JsonStringUnescaped(s) == <<"\"">> \o s \o <<"\"">>

\* A JSON string: quoted, with the quote and the backslash escaped.
JsonString(s) ==
    <<"\"">>
    \o Concat([i \in 1..Len(s) |->
            IF s[i] = "\"" THEN <<"\\", "\"">>
            ELSE IF s[i] = "\\" THEN <<"\\", "\\">>
            ELSE <<s[i]>>])
    \o <<"\"">>

K_id == <<"{", "\"", "i", "d", "\"", ":">>
K_parent == <<",", "\"", "p", "a", "r", "e", "n", "t", "_", "d", "o", "c", "u", "m", "e", "n", "t", "_", "i", "d", "\"", ":">>
K_author == <<",", "\"", "a", "u", "t", "h", "o", "r", "_", "i", "d", "\"", ":">>
K_addressee == <<",", "\"", "a", "d", "d", "r", "e", "s", "s", "e", "e", "_", "i", "d", "\"", ":">>
K_created == <<",", "\"", "c", "r", "e", "a", "t", "e", "d", "_", "a", "t", "\"", ":">>
K_content == <<",", "\"", "c", "o", "n", "t", "e", "n", "t", "\"", ":", "[">>
K_end == <<"]", "}">>
P_fixed == <<"{", "\"", "f", "i", "x", "e", "d", "_", "t", "e", "x", "t", "\"", ":">>
P_placeholder == <<",", "\"", "p", "l", "a", "c", "e", "h", "o", "l", "d", "e", "r", "\"", ":">>
P_text == <<",", "\"", "t", "e", "x", "t", "\"", ":">>
JsonNull == <<"n", "u", "l", "l">>

\* Paragraph.model_dump_json(): the fields in declaration order.
ParagraphJson(p) ==
    P_fixed \o JsonString(p.fixed_text)
    \o P_placeholder \o JsonString(p.placeholder)
    \o P_text \o JsonString(p.text) \o <<"}">>

RECURSIVE JoinComma(_)
\* ",".join(items)
JoinComma(items) ==
    IF items = <<>> THEN <<>>
    ELSE IF Len(items) = 1 THEN items[1]
    ELSE items[1] \o <<",">> \o JoinComma(Tail(items))

\* A canonical form that leaves the paragraphs' text out.
DocumentJsonNoText(d) ==
    K_id \o JsonString(UuidStr[d.id])
    \o K_parent \o (IF d.parent_document_id = None THEN JsonNull
                    ELSE JsonString(UuidStr[d.parent_document_id]))
    \o K_author \o IntStr(d.author_id)
    \o K_addressee \o IntStr(d.addressee_id)
    \o K_created \o JsonString(DatetimeIso[d.created_at])
    \o K_content
    \o JoinComma([i \in 1..Len(d.content) |->
            P_fixed \o JsonString(d.content[i].fixed_text)
            \o P_placeholder \o JsonString(d.content[i].placeholder) \o <<"}">>])
    \o K_end

\* Document.model_dump_json(indent=None): compact JSON, the fields in
\* declaration order, the paragraphs in list order.
DocumentJson(d) ==
    K_id \o JsonString(UuidStr[d.id])
    \o K_parent \o (IF d.parent_document_id = None THEN JsonNull
                    ELSE JsonString(UuidStr[d.parent_document_id]))
    \o K_author \o IntStr(d.author_id)
    \o K_addressee \o IntStr(d.addressee_id)
    \o K_created \o JsonString(DatetimeIso[d.created_at])
    \o K_content
    \o JoinComma([i \in 1..Len(d.content) |-> ParagraphJson(d.content[i])])
    \o K_end

\* DocumentProcessor._document_to_canonical_json
DocumentToCanonicalJson(d) == DocumentJson(d)

\* ---------------------------------------------------------------- keys

\* Key pairs, named by their identity: two RSA pairs (generate_keys) and one
\* of another scheme (ec.generate_private_key(ec.SECP256R1())).
RSAKeys == {"K1", "K2"}
ECKeys == {"E1"}
Keys == RSAKeys \cup ECKeys
KeyAlgorithm == [k \in Keys |-> IF k \in RSAKeys THEN "RSA" ELSE "EC"]

\* A PEM text is the sequence of its lines.
PemBegin == "-----BEGIN PUBLIC KEY-----"
PemEnd == "-----END PUBLIC KEY-----"
\* The base64 SubjectPublicKeyInfo of each key pair's public key.
SpkiBase64 ==
    [k \in Keys |->
        CASE k = "K1" -> "MIIBIjANBgkqhkiG9w0BAQEFAAOCAQ8A..K1"
          [] k = "K2" -> "MIIBIjANBgkqhkiG9w0BAQEFAAOCAQ8A..K2"
          [] OTHER -> "MFkwEwYHKoZIzj0CAQYIKoZIzj0DAQcDQgAE..E1"]

\* public_key().public_bytes(PEM, SubjectPublicKeyInfo).decode('utf-8')
PublicBytesPem(k) == <<PemBegin, SpkiBase64[k], PemEnd>>

\* The same key with a blank line after the END line: another text of the same key.
PemWithBlankLine(k) == PublicBytesPem(k) \o <<"">>

\* A text that is no PEM at all.
PemGarbage == <<"not a pem">>

\* serialization.load_pem_public_key(text.encode('utf-8')): the key of the one
\* BEGIN/END block, blank lines ignored; ValueError when there is none.
LoadPemPublicKey(pem) ==
    LET lines == SelectSeq(pem, LAMBDA l : l # "")
    IN  IF /\ Len(lines) = 3
           /\ lines[1] = PemBegin
           /\ lines[3] = PemEnd
           /\ \E k \in Keys : SpkiBase64[k] = lines[2]
        THEN Ok(CHOOSE k \in Keys : SpkiBase64[k] = lines[2])
        ELSE Raise("ValueError")

\* -------------------------------------------------------------- RSA-PSS

\* Python values handed to the library where the type matters.
PyNone == [type |-> "NoneType"]
PyBytes(b) == [type |-> "bytes", val |-> b]

\* The salts the signer may draw (PSS is randomised).
Salts == {7, 200}
KeyByte == [k \in RSAKeys |-> IF k = "K1" THEN 161 ELSE 178]

\* The signature bytes of key k over message with a drawn salt.
PssSignature(k, message, salt) == <<KeyByte[k], salt>> \o message

\* A validity check that looks at the signer's part of the signature only.
PssValidKeyOnly(k, signature, message) ==
    /\ k \in RSAKeys
    /\ Len(signature) = Len(message) + 2
    /\ signature[1] = KeyByte[k]

\* Whether signature is one the holder of k's private key makes over message.
PssValid(k, signature, message) ==
    /\ k \in RSAKeys
    /\ \E salt \in Salts : signature = PssSignature(k, message, salt)

\* private_key.sign(message, padding.PSS(...), hashes.SHA256()): an RSA key
\* signs; a key of another scheme takes other arguments and raises TypeError.
PrivateKeySign(k, message, salt) ==
    IF KeyAlgorithm[k] # "RSA" THEN Raise("TypeError")
    ELSE Ok(PssSignature(k, message, salt))

\* public_key.verify(signature, message, padding.PSS(...), hashes.SHA256()):
\* returns None or raises InvalidSignature; a key of another scheme has a
\* verify of three arguments and a signature that is not bytes is refused,
\* both with TypeError.
PublicKeyVerify(k, signature, message) ==
    IF KeyAlgorithm[k] # "RSA" THEN Raise("TypeError")
    ELSE IF signature.type # "bytes" THEN Raise("TypeError")
    ELSE IF PssValid(k, signature.val, message) THEN Ok(None)
    ELSE Raise("InvalidSignature")

\* The exception classes of this model; all derive from Exception.
ExceptionClasses == {"InvalidSignature", "ValueError", "TypeError"}

\* ---------------------------------------------------------- crypto_utils

\* crypto_utils.sign_text(text, private_key)
SignText(text, k, salt) == PrivateKeySign(k, Utf8Encode(text), salt)

\* crypto_utils.verify_signature(text, signature, public_key): True, or False
\* on InvalidSignature; any other exception propagates.
CryptoVerifySignature(text, signature, k) ==
    LET r == PublicKeyVerify(k, signature, Utf8Encode(text))
    IN  IF r.ok THEN Ok(TRUE)
        ELSE IF r.exc = "InvalidSignature" THEN Ok(FALSE)
        ELSE r

\* ------------------------------------------------------ DocumentProcessor

\* A get_public_key_pem that returns str(pem) of the bytes instead of decoding
\* them: one line, "b'-----BEGIN ...'".
GetPublicKeyPemRepr(k) ==
    IF k = None THEN Raise("ValueError")
    ELSE Ok(<<"b'" \o PemBegin \o "\\n" \o SpkiBase64[k] \o "\\n" \o PemEnd \o "\\n'">>)

\* DocumentProcessor.get_public_key_pem
GetPublicKeyPem(k) ==
    IF k = None THEN Raise("ValueError") ELSE Ok(PublicBytesPem(k))

\* A sign_document that hands out an unsigned artifact when no key is loaded.
SignDocumentUnchecked(k, d, signator_id, salt, now) ==
    LET json_version == DocumentToCanonicalJson(d)
    IN  IF k = None THEN Ok(Signature(d.id, json_version, signator_id, <<>>, <<>>, now))
        ELSE LET signature_bytes == PrivateKeySign(k, Utf8Encode(json_version), salt)
             IN  IF ~signature_bytes.ok THEN signature_bytes
                 ELSE Ok(Signature(d.id, json_version, signator_id,
                                   GetPublicKeyPem(k).val, BytesHex(signature_bytes.val), now))

\* A sign_document that records the document's author as the signer.
SignDocumentAuthorAsSigner(k, d, signator_id, salt, now) ==
    IF k = None THEN Raise("ValueError")
    ELSE LET json_version == DocumentToCanonicalJson(d)
             signature_bytes == PrivateKeySign(k, Utf8Encode(json_version), salt)
         IN  IF ~signature_bytes.ok THEN signature_bytes
             ELSE Ok(Signature(d.id, json_version, d.author_id,
                               GetPublicKeyPem(k).val, BytesHex(signature_bytes.val), now))

\* DocumentProcessor.sign_document(document, signator_id), with the salt the
\* library draws and the clock's datetime.now().
SignDocument(k, d, signator_id, salt, now) ==
    IF k = None THEN Raise("ValueError")
    ELSE LET json_version == DocumentToCanonicalJson(d)
             signature_bytes == PrivateKeySign(k, Utf8Encode(json_version), salt)
         IN  IF ~signature_bytes.ok THEN signature_bytes
             ELSE Ok(Signature(d.id, json_version, signator_id,
                               GetPublicKeyPem(k).val, BytesHex(signature_bytes.val), now))

\* A verify that checks the artifact against itself only: the stored
\* json_version under the stored key, never the document presented.
VerifySignatureTryStoredOnly(d, a) ==
    LET public_key == LoadPemPublicKey(a.public_key)
    IN  IF ~public_key.ok THEN public_key
        ELSE LET signature_bytes == BytesFromHex(a.signature)
             IN  IF ~signature_bytes.ok THEN signature_bytes
                 ELSE LET v == PublicKeyVerify(public_key.val, PyBytes(signature_bytes.val),
                                               Utf8Encode(a.json_version))
                      IN  IF v.ok THEN Ok(TRUE) ELSE v

\* A verify without the document id comparison.
VerifySignatureTryNoIdCheck(d, a) ==
    LET public_key == LoadPemPublicKey(a.public_key)
    IN  IF ~public_key.ok THEN public_key
        ELSE IF DocumentToCanonicalJson(d) # a.json_version THEN Ok(FALSE)
        ELSE LET signature_bytes == BytesFromHex(a.signature)
             IN  IF ~signature_bytes.ok THEN signature_bytes
                 ELSE LET v == PublicKeyVerify(public_key.val, PyBytes(signature_bytes.val),
                                               Utf8Encode(a.json_version))
                      IN  IF v.ok THEN Ok(TRUE) ELSE v

\* A verify that compares the ids and the canonical JSON and never checks the
\* signature bytes.
VerifySignatureTryNoCrypto(d, a) ==
    IF d.id # a.document_id THEN Ok(FALSE)
    ELSE LET public_key == LoadPemPublicKey(a.public_key)
         IN  IF ~public_key.ok THEN public_key
             ELSE IF DocumentToCanonicalJson(d) # a.json_version THEN Ok(FALSE)
             ELSE Ok(TRUE)

\* The try block of DocumentProcessor.verify_signature.
VerifySignatureTry(d, a) ==
    IF d.id # a.document_id THEN Ok(FALSE)
    ELSE LET public_key == LoadPemPublicKey(a.public_key)
         IN  IF ~public_key.ok THEN public_key
             ELSE IF DocumentToCanonicalJson(d) # a.json_version THEN Ok(FALSE)
             ELSE LET signature_bytes == BytesFromHex(a.signature)
                  IN  IF ~signature_bytes.ok THEN signature_bytes
                      ELSE LET v == PublicKeyVerify(public_key.val, PyBytes(signature_bytes.val),
                                                    Utf8Encode(a.json_version))
                           IN  IF v.ok THEN Ok(TRUE) ELSE v

\* A verify_signature that also rejects every artifact labelled with signer 999.
VerifySignatureChecksSigner(d, a) ==
    LET r == VerifySignatureTry(d, a)
    IN  IF a.signator_id = 999 THEN Ok(FALSE)
        ELSE IF r.ok THEN r
        ELSE IF r.exc \in ExceptionClasses THEN Ok(FALSE)
        ELSE r

\* A verify_signature that also rejects every artifact signed at T1.
VerifySignatureChecksSignedAt(d, a) ==
    LET r == VerifySignatureTry(d, a)
    IN  IF a.signed_at = "T1" THEN Ok(FALSE)
        ELSE IF r.ok THEN r
        ELSE IF r.exc \in ExceptionClasses THEN Ok(FALSE)
        ELSE r

\* DocumentProcessor.verify_signature: "except InvalidSignature" and
\* "except Exception" both return False.
VerifySignature(d, a) ==
    LET r == VerifySignatureTry(d, a)
    IN  IF r.ok THEN r
        ELSE IF r.exc \in ExceptionClasses THEN Ok(FALSE)
        ELSE r

\* -------------------------------------------------- SignedDocumentsService

\* A registry verify that checks the signature under the registered key
\* without comparing it to the artifact's own key text.
VerifyDocumentSignatureTryAnyText(tk, d, a) ==
    IF a.signator_id \notin DOMAIN tk THEN Ok(FALSE)
    ELSE IF d.id # a.document_id THEN Ok(FALSE)
    ELSE LET public_key == LoadPemPublicKey(tk[a.signator_id])
         IN  IF ~public_key.ok THEN public_key
             ELSE IF DocumentJson(d) # a.json_version THEN Ok(FALSE)
             ELSE LET signature_bytes == BytesFromHex(a.signature)
                  IN  IF ~signature_bytes.ok THEN signature_bytes
                      ELSE LET v == PublicKeyVerify(public_key.val,
                                                    PyBytes(signature_bytes.val),
                                                    Utf8Encode(a.json_version))
                           IN  IF v.ok THEN Ok(TRUE) ELSE v

\* The try block of SignedDocumentsService.verify_document_signature.
VerifyDocumentSignatureTry(tk, d, a) ==
    IF a.signator_id \notin DOMAIN tk THEN Ok(FALSE)
    ELSE IF d.id # a.document_id THEN Ok(FALSE)
    ELSE LET trusted_key_pem == tk[a.signator_id]
         IN  IF a.public_key # trusted_key_pem THEN Ok(FALSE)
             ELSE LET public_key == LoadPemPublicKey(trusted_key_pem)
                  IN  IF ~public_key.ok THEN public_key
                      ELSE IF DocumentJson(d) # a.json_version THEN Ok(FALSE)
                      ELSE LET signature_bytes == BytesFromHex(a.signature)
                           IN  IF ~signature_bytes.ok THEN signature_bytes
                               ELSE LET v == PublicKeyVerify(public_key.val,
                                                             PyBytes(signature_bytes.val),
                                                             Utf8Encode(a.json_version))
                                    IN  IF v.ok THEN Ok(TRUE) ELSE v

\* A registry verify whose only handler is "except InvalidSignature".
VerifyDocumentSignatureNarrow(tk, d, a) ==
    LET r == VerifyDocumentSignatureTry(tk, d, a)
    IN  IF r.ok THEN r
        ELSE IF r.exc = "InvalidSignature" THEN Ok(FALSE)
        ELSE r

\* SignedDocumentsService.verify_document_signature
VerifyDocumentSignature(tk, d, a) ==
    LET r == VerifyDocumentSignatureTry(tk, d, a)
    IN  IF r.ok THEN r
        ELSE IF r.exc \in ExceptionClasses THEN Ok(FALSE)
        ELSE r

\* ------------------------------------------------------------ the callers

\* The longest content list an alteration may build.
MaxParagraphs == 2

\* datetime.now() at signing.
Clock == {"T2"}

\* Sample documents (tests' sample_document and different_document).
Doc1 == Document("U1", None, 1, 2, "T1", <<Paragraph(S_Dear, S_name, S_John)>>)
Doc2 == Document("U2", "U1", 2, 1, "T2",
                 <<Paragraph(S_Dear, S_name, S_John), Paragraph(S_name, S_Dear, S_Jane)>>)
SampleDocs == {Doc1, Doc2}

\* The values an alteration writes into a paragraph string.
EditStrs == {S_Jane, S_Quote}

\* The lists that differ from content in one paragraph field, in one
\* paragraph removed or appended, or in the order of two neighbours.
ContentEdits(content) ==
    LET n == Len(content)
    IN  {[content EXCEPT ![i].fixed_text = x] : i \in 1..n, x \in EditStrs}
        \cup {[content EXCEPT ![i].placeholder = x] : i \in 1..n, x \in EditStrs}
        \cup {[content EXCEPT ![i].text = x] : i \in 1..n, x \in EditStrs}
        \cup {SubSeq(content, 1, i - 1) \o SubSeq(content, i + 1, n) : i \in 1..n}
        \cup {Append(content, Paragraph(S_Dear, S_name, S_Jane)) : k \in {1} \cap 1..(MaxParagraphs - n)}
        \cup {[content EXCEPT ![i] = content[i + 1], ![i + 1] = content[i]] : i \in 1..(n - 1)}

\* The documents that differ from d in exactly one field (the tests'
\* tampered_document.content[0].text = "Jane Doe", for every field).
DocumentEdits(d) ==
    ({[d EXCEPT !.id = x] : x \in UUIDs}
     \cup {[d EXCEPT !.parent_document_id = x] : x \in UUIDs \cup {None}}
     \cup {[d EXCEPT !.author_id = x] : x \in PersonIds}
     \cup {[d EXCEPT !.addressee_id = x] : x \in PersonIds}
     \cup {[d EXCEPT !.created_at = x] : x \in Datetimes}
     \cup {[d EXCEPT !.content = x] : x \in ContentEdits(d.content)})
    \ {d}

\* Texts put in place of the hex signature: none, no hex at all, the same
\* bytes in upper case, and the signature with its first byte flipped.
FlipFirstByte(hex) ==
    LET b == BytesFromHex(hex).val
    IN  BytesHex([b EXCEPT ![1] = 255 - b[1]])
UpperHex(hex) ==
    [i \in 1..Len(hex) |->
        IF hex[i] \in HexChars THEN UpperHexDigits[HexValue[hex[i]] + 1] ELSE hex[i]]
SignatureEdits(hex) == {<<>>, <<"z", "z">>, UpperHex(hex), FlipFirstByte(hex)}

\* byte ^ (1 << j): one bit of a byte flipped.
FlipBit(byte, j) ==
    IF (byte \div (2 ^ j)) % 2 = 1 THEN byte - 2 ^ j ELSE byte + 2 ^ j

\* The byte strings made from b by flipping one bit of one byte, any bit of
\* any byte, or all bits of one byte (the tests' sig[0] ^= 0xFF at any index).
TamperedBytes(b) ==
    {[b EXCEPT ![i] = FlipBit(b[i], j)] : i \in 1..Len(b), j \in 0..7}
    \cup {[b EXCEPT ![i] = 255 - b[i]] : i \in 1..Len(b)}

\* The artifacts a forger builds from a by replacing one field (the tests'
\* forged_signature and manipulated_signature), d being the signed document.
ArtifactEdits(a, d) ==
    ({[a EXCEPT !.public_key = x] :
        x \in {PublicBytesPem(k) : k \in Keys}
              \cup {PemWithBlankLine(k) : k \in RSAKeys} \cup {PemGarbage}}
     \cup {[a EXCEPT !.signature = x] : x \in SignatureEdits(a.signature)}
     \cup {[a EXCEPT !.json_version = x] :
            x \in {DocumentJson([d EXCEPT !.author_id = y]) : y \in PersonIds} \cup {<<"{", "}">>}}
     \cup {[a EXCEPT !.document_id = x] : x \in UUIDs}
     \cup {[a EXCEPT !.signator_id = x] : x \in SignerIds}
     \cup {[a EXCEPT !.signed_at = x] : x \in Datetimes})
    \ {a}

NoSigned == [absent |-> TRUE]
NoFile == [absent |-> TRUE]
EmptyRegistry == [x \in {} |-> <<>>]
NoCall == [op |-> "none", ret |-> "None"]
Call(op, ret) == [op |-> op, ret |-> ret]

\* What the caller sees of a call: the returned boolean or the exception raised.
Outcome(r) == IF r.ok THEN (IF r.val THEN "True" ELSE "False") ELSE r.exc

\* The pair the caller holds is the one sign_document produced, unaltered.
Pristine == signed # NoSigned /\ doc = signed.doc /\ sig = signed.artifact

\* ------------------------------------------------------------------ state

Init ==
    /\ private_key = None
    /\ trusted_keys = EmptyRegistry
    /\ trusted_order = <<>>
    /\ doc \in SampleDocs
    /\ sig = NoSignature
    /\ signed = NoSigned
    /\ last = NoCall
    /\ trusted_seen = "never"
    /\ disk = NoFile
    /\ put_history = <<>>
    /\ store_file = NoFile
    /\ stores = <<>>
    /\ started_with = EmptyRegistry
    /\ callers = <<>>
    /\ other_key = None
    /\ key_file = NoFile

\* DocumentProcessor.generate_keys
GenerateKeys ==
    /\ \E k \in RSAKeys : private_key' = k
    /\ last' = Call("generate_keys", "key")
    /\ UNCHANGED <<trusted_keys, trusted_order, doc, sig, signed, trusted_seen, disk, key_file, other_key, callers, started_with, stores, store_file, put_history>>

\* DocumentProcessor.load_private_key: the file holds any PEM private key.
LoadPrivateKey ==
    /\ \E k \in Keys : private_key' = k
    /\ last' = Call("load_private_key", "key")
    /\ UNCHANGED <<trusted_keys, trusted_order, doc, sig, signed, trusted_seen, disk, key_file, other_key, callers, started_with, stores, store_file, put_history>>

\* A caller signs the document it holds (never an altered one) and keeps the artifact.
SignDocumentCall ==
    /\ signed = NoSigned \/ Pristine
    /\ \E signator_id \in SignerIds, salt \in Salts, now \in Clock :
        LET r == SignDocument(private_key, doc, signator_id, salt, now)
        IN  IF r.ok
            THEN /\ sig' = r.val
                 /\ signed' = [doc |-> doc, artifact |-> r.val]
                 /\ last' = [op |-> "sign_document", ret |-> "Signature",
                             signator_id |-> signator_id]
            ELSE /\ UNCHANGED <<sig, signed>>
                 /\ last' = [op |-> "sign_document", ret |-> r.exc,
                             signator_id |-> signator_id]
    /\ UNCHANGED <<private_key, trusted_keys, trusted_order, doc, trusted_seen, disk, key_file, other_key, callers, started_with, stores, store_file, put_history>>

\* The document is altered in one field after signing.
EditDocument ==
    /\ Pristine
    /\ \E d \in DocumentEdits(doc) : doc' = d
    /\ last' = NoCall
    /\ UNCHANGED <<private_key, trusted_keys, trusted_order, sig, signed, trusted_seen, disk, key_file, other_key, callers, started_with, stores, store_file, put_history>>

\* Another document altogether is presented with the artifact.
PresentDocument ==
    /\ Pristine
    /\ \E d \in SampleDocs \ {doc} : doc' = d
    /\ last' = NoCall
    /\ UNCHANGED <<private_key, trusted_keys, trusted_order, sig, signed, trusted_seen, disk, key_file, other_key, callers, started_with, stores, store_file, put_history>>

\* The artifact is rebuilt with one field replaced.
EditArtifact ==
    /\ Pristine
    /\ \E a \in ArtifactEdits(sig, signed.doc) : sig' = a
    /\ last' = NoCall
    /\ UNCHANGED <<private_key, trusted_keys, trusted_order, doc, signed, trusted_seen, disk, key_file, other_key, callers, started_with, stores, store_file, put_history>>

\* DocumentProcessor.verify_signature(doc, sig)
VerifySignatureCall ==
    /\ sig # NoSignature
    /\ last' = Call("verify_signature", Outcome(VerifySignature(doc, sig)))
    /\ UNCHANGED <<private_key, trusted_keys, trusted_order, doc, sig, signed, trusted_seen, disk, key_file, other_key, callers, started_with, stores, store_file, put_history>>

Next ==
    \/ GenerateKeys
    \/ LoadPrivateKey
    \/ SignDocumentCall
    \/ EditDocument
    \/ PresentDocument
    \/ EditArtifact
    \/ VerifySignatureCall

Spec == Init /\ [][Next]_vars

\* ---------------------------------------------- crypto_utils and its callers

\* Texts the tests sign and verify.
Text_pay == <<"p", "a", "y", "=", "1", "0", "0">>
Text_pay2 == <<"p", "a", "y", "=", "9", "0", "0">>
Texts == {Text_pay, Text_pay2}

\* crypto_utils takes its keys as arguments and reads no processor or service
\* state, so its calls are explored from the initial state only.
CryptoCaller == private_key = None /\ sig = NoSignature

\* crypto_utils.sign_text(text, private_key) with any key object.
SignTextCall ==
    /\ CryptoCaller
    /\ \E text \in Texts, k \in Keys, salt \in Salts :
        LET r == SignText(text, k, salt)
        IN  last' = [op |-> "sign_text", ret |-> IF r.ok THEN "bytes" ELSE r.exc,
                     text |-> text, key |-> k,
                     signature |-> IF r.ok THEN r.val ELSE <<>>]
    /\ UNCHANGED <<private_key, trusted_keys, trusted_order, doc, sig, signed, trusted_seen, disk, key_file, other_key, callers, started_with, stores, store_file, put_history>>

\* crypto_utils.verify_signature(text, signature, public_key) on the signature
\* sign_text just returned, on that signature with bits flipped, on no
\* signature (None, b'') and with any public key.
CryptoVerifySignatureCall ==
    /\ last.op = "sign_text" /\ last.ret = "bytes"
    /\ \E text \in Texts, k \in Keys,
          signature \in {PyBytes(last.signature), PyBytes(<<>>), PyNone}
                        \cup {PyBytes(t) : t \in TamperedBytes(last.signature)} :
        last' = [op |-> "crypto_utils.verify_signature",
                 ret |-> Outcome(CryptoVerifySignature(text, signature, k)),
                 text |-> text, signature |-> signature, public_key |-> k,
                 signed_text |-> last.text, signed_with |-> last.key,
                 signed_bytes |-> last.signature]
    /\ UNCHANGED <<private_key, trusted_keys, trusted_order, doc, sig, signed, trusted_seen, disk, key_file, other_key, callers, started_with, stores, store_file, put_history>>

\* The forger puts another key's PEM into the artifact (tests' forged_signature).
SubstitutePublicKey ==
    /\ Pristine
    /\ \E k \in Keys :
        /\ PublicBytesPem(k) # sig.public_key
        /\ sig' = [sig EXCEPT !.public_key = PublicBytesPem(k)]
    /\ last' = NoCall
    /\ UNCHANGED <<private_key, trusted_keys, trusted_order, doc, signed, trusted_seen, disk, key_file, other_key, callers, started_with, stores, store_file, put_history>>

\* Bits of the artifact's signature are flipped and the hex text rebuilt.
TamperSignatureHex ==
    /\ Pristine
    /\ \E b \in TamperedBytes(BytesFromHex(sig.signature).val) :
        sig' = [sig EXCEPT !.signature = BytesHex(b)]
    /\ last' = NoCall
    /\ UNCHANGED <<private_key, trusted_keys, trusted_order, doc, signed, trusted_seen, disk, key_file, other_key, callers, started_with, stores, store_file, put_history>>

InitCrypto == Init /\ doc = Doc1

NextCrypto ==
    \/ GenerateKeys
    \/ SignTextCall
    \/ CryptoVerifySignatureCall
    \/ SignDocumentCall
    \/ SubstitutePublicKey
    \/ VerifySignatureCall

SpecCrypto == InitCrypto /\ [][NextCrypto]_vars

\* ---------------------------------------------------- artifact tampering

\* The artifacts whose signature bytes are tampered with: Doc1 signed with
\* each RSA key and each salt.
TamperArtifacts == {SignDocument(k, Doc1, 42, salt, "T2").val : k \in RSAKeys, salt \in Salts}

\* Either a caller of crypto_utils with nothing signed yet, or the holder of
\* a document and the artifact sign_document made for it.
InitTamper ==
    /\ private_key = None
    /\ trusted_keys = EmptyRegistry
    /\ trusted_order = <<>>
    /\ doc = Doc1
    /\ \/ sig = NoSignature /\ signed = NoSigned
       \/ \E a \in TamperArtifacts : sig = a /\ signed = [doc |-> Doc1, artifact |-> a]
    /\ last = NoCall
    /\ trusted_seen = "never"
    /\ disk = NoFile
    /\ put_history = <<>>
    /\ store_file = NoFile
    /\ stores = <<>>
    /\ started_with = EmptyRegistry
    /\ callers = <<>>
    /\ other_key = None
    /\ key_file = NoFile

\* The forger replaces json_version by the canonical JSON of a modified
\* document d_t and presents the artifact with the signed document or with d_t
\* (tests' manipulated_signature).
ManipulateJsonVersion ==
    /\ Pristine
    /\ \E d_t \in DocumentEdits(doc) :
        /\ sig' = [sig EXCEPT !.json_version = DocumentJson(d_t)]
        /\ doc' \in {doc, d_t}
    /\ last' = NoCall
    /\ UNCHANGED <<private_key, trusted_keys, trusted_order, signed, trusted_seen, disk, key_file, other_key, callers, started_with, stores, store_file, put_history>>

NextTamper ==
    \/ SignTextCall
    \/ CryptoVerifySignatureCall
    \/ TamperSignatureHex
    \/ ManipulateJsonVersion
    \/ VerifySignatureCall

SpecTamper == InitTamper /\ [][NextTamper]_vars

\* ------------------------------------------ SignedDocumentsService callers

\* A remove that reports success and leaves the entry in place.
RemoveTrustedKeyKeeps(tk, signer_id) ==
    IF signer_id \in DOMAIN tk THEN [ret |-> "True", trusted_keys |-> tk]
    ELSE [ret |-> "False", trusted_keys |-> tk]

\* An add that stores whatever text it is given.
AddTrustedKeyUnvalidated(tk, signer_id, public_key_pem) ==
    [ret |-> "None",
     trusted_keys |-> [x \in DOMAIN tk \cup {signer_id} |->
                            IF x = signer_id THEN public_key_pem ELSE tk[x]]]

\* An add that stores the text first and validates it afterwards.
AddTrustedKeyStoreFirst(tk, signer_id, public_key_pem) ==
    [ret |-> IF LoadPemPublicKey(public_key_pem).ok THEN "None" ELSE "ValueError",
     trusted_keys |-> [x \in DOMAIN tk \cup {signer_id} |->
                            IF x = signer_id THEN public_key_pem ELSE tk[x]]]

\* An add that keeps the key a signer already has.
AddTrustedKeyKeepFirst(tk, signer_id, public_key_pem) ==
    IF ~LoadPemPublicKey(public_key_pem).ok
    THEN [ret |-> "ValueError", trusted_keys |-> tk]
    ELSE [ret |-> "None",
          trusted_keys |-> [x \in DOMAIN tk \cup {signer_id} |->
                                IF x \in DOMAIN tk THEN tk[x] ELSE public_key_pem]]

\* A remove that empties the registry.
RemoveTrustedKeyClears(tk, signer_id) ==
    IF signer_id \in DOMAIN tk THEN [ret |-> "True", trusted_keys |-> EmptyRegistry]
    ELSE [ret |-> "False", trusted_keys |-> tk]

\* SignedDocumentsService.add_trusted_key: the PEM must load, then it is stored.
AddTrustedKey(tk, signer_id, public_key_pem) ==
    IF ~LoadPemPublicKey(public_key_pem).ok
    THEN [ret |-> "ValueError", trusted_keys |-> tk]
    ELSE [ret |-> "None",
          trusted_keys |-> [x \in DOMAIN tk \cup {signer_id} |->
                                IF x = signer_id THEN public_key_pem ELSE tk[x]]]

\* SignedDocumentsService.remove_trusted_key
RemoveTrustedKey(tk, signer_id) ==
    IF signer_id \in DOMAIN tk
    THEN [ret |-> "True", trusted_keys |-> [x \in DOMAIN tk \ {signer_id} |-> tk[x]]]
    ELSE [ret |-> "False", trusted_keys |-> tk]

\* The PEM texts an operator submits to /keys/add.
PemInputs ==
    {PublicBytesPem(k) : k \in Keys} \cup {PemWithBlankLine("K1"), PemGarbage}

\* The (document, artifact) pairs submitted for verification: Doc1 signed
\* by the key K1, as is, with the document altered, or with the artifact altered.
ServiceArtifacts == {SignDocument("K1", Doc1, s, 7, "T2").val : s \in SignerIds}
ServicePairs(a) ==
    {<<Doc1, a>>}
    \cup {<<d, a>> : d \in DocumentEdits(Doc1)}
    \cup {<<Doc1, b>> : b \in ArtifactEdits(a, Doc1)}

InitService ==
    /\ private_key = None
    /\ trusted_keys = EmptyRegistry
    /\ trusted_order = <<>>
    /\ \E a \in ServiceArtifacts :
        /\ signed = [doc |-> Doc1, artifact |-> a]
        /\ \E pair \in ServicePairs(a) : doc = pair[1] /\ sig = pair[2]
    /\ last = NoCall
    /\ trusted_seen = "never"
    /\ disk = NoFile
    /\ put_history = <<>>
    /\ store_file = NoFile
    /\ stores = <<>>
    /\ started_with = EmptyRegistry
    /\ callers = <<>>
    /\ other_key = None
    /\ key_file = NoFile

\* dict keys that grow with every assignment.
DictKeysAfterSetAppend(order, k) == Append(order, k)

\* dict keys after d[k] = v: a new key goes last, a present key keeps its place.
DictKeysAfterSet(order, k) ==
    IF \E i \in 1..Len(order) : order[i] = k THEN order ELSE Append(order, k)

\* dict keys after del d[k]
DictKeysAfterDel(order, k) == SelectSeq(order, LAMBDA x : x # k)

\* A Python str where None may stand instead.
PyStr(v) == [type |-> "str", val |-> v]

\* SignedDocumentsService.get_trusted_key: dict.get
GetTrustedKey(tk, signer_id) ==
    IF signer_id \in DOMAIN tk THEN PyStr(tk[signer_id]) ELSE PyNone

\* SignedDocumentsService.list_trusted_signers: list(dict.keys())
ListTrustedSigners(order) == [i \in 1..Len(order) |-> order[i]]

\* SignedDocumentsService.add_trusted_key(signer_id, pem)
AddTrustedKeyCall ==
    /\ \E signer_id \in SignerIds, pem \in PemInputs :
        LET r == AddTrustedKey(trusted_keys, signer_id, pem)
        IN  /\ trusted_keys' = r.trusted_keys
            /\ trusted_order' = IF r.ret = "None" THEN DictKeysAfterSet(trusted_order, signer_id)
                                ELSE trusted_order
            /\ last' = [op |-> "add_trusted_key", ret |-> r.ret,
                        signer_id |-> signer_id, public_key_pem |-> pem]
            /\ trusted_seen' =
                IF trusted_seen = "removed" /\ signer_id = sig.signator_id /\ pem = sig.public_key
                THEN "accepted" ELSE trusted_seen
    /\ UNCHANGED <<private_key, doc, sig, signed, disk, key_file, other_key, callers, started_with, stores, store_file, put_history>>

\* SignedDocumentsService.remove_trusted_key(signer_id)
RemoveTrustedKeyCall ==
    /\ \E signer_id \in SignerIds :
        LET r == RemoveTrustedKey(trusted_keys, signer_id)
        IN  /\ trusted_keys' = r.trusted_keys
            /\ trusted_order' = IF r.ret = "True" THEN DictKeysAfterDel(trusted_order, signer_id)
                                ELSE trusted_order
            /\ last' = [op |-> "remove_trusted_key", ret |-> r.ret, signer_id |-> signer_id]
            /\ trusted_seen' =
                IF trusted_seen = "accepted" /\ signer_id = sig.signator_id
                THEN "removed" ELSE trusted_seen
    /\ UNCHANGED <<private_key, doc, sig, signed, disk, key_file, other_key, callers, started_with, stores, store_file, put_history>>

\* A verify_document_signature that evicts the signer whose artifact it rejects.
VerifyDocumentSignatureCallEvicts ==
    /\ LET ret == Outcome(VerifyDocumentSignature(trusted_keys, doc, sig))
           tk == IF ret = "True" THEN trusted_keys
                 ELSE RemoveTrustedKey(trusted_keys, sig.signator_id).trusted_keys
       IN  /\ last' = Call("verify_document_signature", ret)
           /\ trusted_keys' = tk
           /\ trusted_order' = SelectSeq(trusted_order, LAMBDA x : x \in DOMAIN tk)
           /\ trusted_seen' =
                IF ret = "True" /\ trusted_seen = "never" THEN "accepted" ELSE trusted_seen
    /\ UNCHANGED <<private_key, doc, sig, signed, disk, key_file, other_key, callers, started_with, stores, store_file, put_history>>

\* SignedDocumentsService.verify_document_signature(doc, sig)
VerifyDocumentSignatureCall ==
    /\ LET ret == Outcome(VerifyDocumentSignature(trusted_keys, doc, sig))
       IN  /\ last' = Call("verify_document_signature", ret)
           /\ trusted_seen' =
                IF ret = "True" /\ trusted_seen = "never" THEN "accepted" ELSE trusted_seen
    /\ UNCHANGED <<private_key, trusted_keys, trusted_order, doc, sig, signed, disk, key_file, other_key, callers, started_with, stores, store_file, put_history>>

\* SignedDocumentsService.get_trusted_key(signer_id)
GetTrustedKeyCall ==
    /\ \E signer_id \in SignerIds :
        LET v == GetTrustedKey(trusted_keys, signer_id)
        IN  last' = [op |-> "get_trusted_key", ret |-> IF v = PyNone THEN "None" ELSE "str",
                     signer_id |-> signer_id, value |-> v]
    /\ UNCHANGED <<private_key, trusted_keys, trusted_order, doc, sig, signed, trusted_seen, disk, key_file, other_key, callers, started_with, stores, store_file, put_history>>

\* SignedDocumentsService.list_trusted_signers()
ListTrustedSignersCall ==
    /\ last' = [op |-> "list_trusted_signers", ret |-> "list",
                value |-> ListTrustedSigners(trusted_order)]
    /\ UNCHANGED <<private_key, trusted_keys, trusted_order, doc, sig, signed, trusted_seen, disk, key_file, other_key, callers, started_with, stores, store_file, put_history>>

NextService ==
    \/ AddTrustedKeyCall
    \/ RemoveTrustedKeyCall
    \/ VerifyDocumentSignatureCall
    \/ VerifySignatureCall

SpecService == InitService /\ [][NextService]_vars

\* The registry and its front end: the pair submitted is Doc1 as signed.
InitRegistry == InitService /\ doc = Doc1 /\ sig = signed.artifact

NextRegistry ==
    \/ AddTrustedKeyCall
    \/ RemoveTrustedKeyCall
    \/ GetTrustedKeyCall
    \/ ListTrustedSignersCall
    \/ VerifyDocumentSignatureCall

SpecRegistry == InitRegistry /\ [][NextRegistry]_vars

\* ------------------------------------------------- the canonical encoder

\* Paragraph strings that hold JSON syntax: the end of one string, the next
\* key and the start of its string.
S_a == <<"a">>
S_c == <<"c">>
S_InjectF == <<"a", "\"">> \o P_placeholder \o <<"\"", "b">>
S_InjectP == <<"b", "\"">> \o P_placeholder \o <<"\"", "c">>

\* Content lists: none, one paragraph, two in either order, and two that differ
\* in where the JSON syntax inside their strings stands.
EncodeContents ==
    {<<>>,
     <<Paragraph(S_Dear, S_name, S_John)>>,
     <<Paragraph(S_Dear, S_name, S_John), Paragraph(S_Dear, S_name, S_Jane)>>,
     <<Paragraph(S_Dear, S_name, S_Jane), Paragraph(S_Dear, S_name, S_John)>>,
     <<Paragraph(S_InjectF, S_c, S_John)>>,
     <<Paragraph(S_a, S_InjectP, S_John)>>}

\* The documents encoded first and the documents they are compared with.
EncodeBases == {Document("U1", None, 1, 2, "T1", c) : c \in EncodeContents}
EncodeDocs ==
    {Document(id, parent, author, addressee, created, c) :
        id \in UUIDs, parent \in {None, "U2"}, author \in PersonIds,
        addressee \in PersonIds, created \in Datetimes, c \in EncodeContents}

InitEncode ==
    /\ private_key = "K1"
    /\ trusted_keys = EmptyRegistry
    /\ trusted_order = <<>>
    /\ doc \in EncodeBases
    /\ sig = NoSignature
    /\ signed = NoSigned
    /\ last = NoCall
    /\ trusted_seen = "never"
    /\ disk = NoFile
    /\ put_history = <<>>
    /\ store_file = NoFile
    /\ stores = <<>>
    /\ started_with = EmptyRegistry
    /\ callers = <<>>
    /\ other_key = None
    /\ key_file = NoFile

\* The artifact is presented with another document.
PresentEncoded ==
    /\ Pristine
    /\ \E d \in EncodeDocs \ {doc} : doc' = d
    /\ last' = NoCall
    /\ UNCHANGED <<private_key, trusted_keys, trusted_order, sig, signed, trusted_seen, disk, key_file, other_key, callers, started_with, stores, store_file, put_history>>

NextEncode ==
    \/ SignDocumentCall
    \/ PresentEncoded
    \/ VerifySignatureCall

SpecEncode == InitEncode /\ [][NextEncode]_vars

\* ------------------------------------------------------ the artifact file

\* The place of a character that is not written.
NoChar == "NOCHAR"

\* json.dumps of a str: quoted, the quote and the backslash escaped.
JsonDumpsStr(s) ==
    LET d == [i \in 1..(2 * Len(s)) |->
                IF i % 2 = 0 THEN s[i \div 2]
                ELSE IF s[(i + 1) \div 2] \in {"\"", "\\"} THEN "\\" ELSE NoChar]
    IN  <<"\"">> \o SelectSeq(d, LAMBDA c : c # NoChar) \o <<"\"">>

\* A string decoder that drops every backslash.
JsonLoadsStrNaive(t) ==
    IF Len(t) < 2 \/ t[1] # "\"" \/ t[Len(t)] # "\"" THEN Raise("JSONDecodeError")
    ELSE Ok(SelectSeq(SubSeq(t, 2, Len(t) - 1), LAMBDA c : c # "\\"))

\* json.loads of a JSON string: a backslash that follows an even number of
\* backslashes introduces an escape and is dropped, the character after it
\* is taken as it is; a quote that is not escaped ends the string early.
JsonLoadsStr(t) ==
    IF Len(t) < 2 \/ t[1] # "\"" \/ t[Len(t)] # "\"" THEN Raise("JSONDecodeError")
    ELSE LET body == SubSeq(t, 2, Len(t) - 1)
             Run(i) == CHOOSE k \in 0..(i - 1) :
                           /\ \A j \in 1..k : body[i - j] = "\\"
                           /\ (k = i - 1 \/ body[i - 1 - k] # "\\")
             Introducer(i) == body[i] = "\\" /\ Run(i) % 2 = 0
             m == [i \in 1..Len(body) |-> IF Introducer(i) THEN NoChar ELSE body[i]]
         IN  IF \E i \in 1..Len(body) : body[i] = "\"" /\ Run(i) % 2 = 0
             THEN Raise("JSONDecodeError")
             ELSE Ok(SelectSeq(m, LAMBDA c : c # NoChar))

\* json.dumps of a str held as its lines (a PEM text): each line, then the
\* escape of its newline.
JsonDumpsLines(lines) ==
    LET d == [i \in 1..(3 * Len(lines)) |->
                IF i % 3 = 1 THEN (IF lines[(i + 2) \div 3] = "" THEN NoChar
                                   ELSE lines[(i + 2) \div 3])
                ELSE IF i % 3 = 2 THEN "\\" ELSE "n"]
    IN  <<"\"">> \o SelectSeq(d, LAMBDA c : c # NoChar) \o <<"\"">>

\* json.loads of such a string: the lines are what stands before each
\* escaped newline.
JsonLoadsLines(t) ==
    IF Len(t) < 2 \/ t[1] # "\"" \/ t[Len(t)] # "\"" THEN Raise("JSONDecodeError")
    ELSE LET body == SubSeq(t, 2, Len(t) - 1)
             P == {i \in 1..(Len(body) - 1) : body[i] = "\\" /\ body[i + 1] = "n"}
             Nth(k) == CHOOSE q \in P : Cardinality({r \in P : r < q}) = k - 1
             Start(k) == IF k = 1 THEN 1 ELSE Nth(k - 1) + 2
         IN  Ok([k \in 1..Cardinality(P) |->
                    IF Start(k) = Nth(k) THEN "" ELSE body[Start(k)]])

RECURSIVE IntParse(_)
\* json.loads of a JSON number without sign, fraction or exponent.
IntParse(t) ==
    IF t = <<>> THEN 0
    ELSE 10 * IntParse(SubSeq(t, 1, Len(t) - 1))
         + ((CHOOSE i \in 1..10 : Digits[i] = t[Len(t)]) - 1)

\* pydantic: a str field validated as UUID / as datetime.
UuidParse(str) ==
    IF \E u \in UUIDs : UuidStr[u] = str
    THEN Ok(CHOOSE u \in UUIDs : UuidStr[u] = str) ELSE Raise("ValidationError")
DatetimeParse(str) ==
    IF \E t \in Datetimes : DatetimeIso[t] = str
    THEN Ok(CHOOSE t \in Datetimes : DatetimeIso[t] = str) ELSE Raise("ValidationError")

\* What json.dumps writes for a field of json.loads(model_dump_json()): pydantic
\* writes the value, json.loads reads it, json.dumps writes it again.
FileStr(str) == JsonDumpsStr(JsonLoadsStr(JsonString(str)).val)
FileLongStr(str) == JsonDumpsStr(JsonLoadsStr(JsonDumpsStr(str)).val)
FileLines(lines) == JsonDumpsLines(JsonLoadsLines(JsonDumpsLines(lines)).val)
FileInt(n) == IntStr(IntParse(IntStr(n)))

\* DocumentProcessor.save_document_signature_pair: the text written, as the
\* JSON text of every field under its key.
SaveDocumentSignaturePair(d, a) ==
    [document |->
        [id |-> FileStr(UuidStr[d.id]),
         parent_document_id |-> IF d.parent_document_id = None THEN JsonNull
                                ELSE FileStr(UuidStr[d.parent_document_id]),
         author_id |-> FileInt(d.author_id),
         addressee_id |-> FileInt(d.addressee_id),
         created_at |-> FileStr(DatetimeIso[d.created_at]),
         content |-> [i \in 1..Len(d.content) |->
                        [fixed_text |-> FileStr(d.content[i].fixed_text),
                         placeholder |-> FileStr(d.content[i].placeholder),
                         text |-> FileStr(d.content[i].text)]]],
     signature |->
        [document_id |-> FileStr(UuidStr[a.document_id]),
         json_version |-> FileLongStr(a.json_version),
         signator_id |-> FileInt(a.signator_id),
         public_key |-> FileLines(a.public_key),
         signature |-> FileLongStr(a.signature),
         signed_at |-> FileStr(DatetimeIso[a.signed_at])]]

\* A str field of the file validated as UUID / as datetime.
UuidField(token) ==
    LET str == JsonLoadsStr(token) IN IF str.ok THEN UuidParse(str.val) ELSE str
DatetimeField(token) ==
    LET str == JsonLoadsStr(token) IN IF str.ok THEN DatetimeParse(str.val) ELSE str

\* DocumentProcessor.load_document_signature_pair: json.loads, then
\* Document(**data["document"]) and Signature(**data["signature"]).
LoadDocumentSignaturePair(text) ==
    LET dd == text.document
        ss == text.signature
        id == UuidField(dd.id)
        parent == IF dd.parent_document_id = JsonNull THEN Ok(None)
                  ELSE UuidField(dd.parent_document_id)
        created_at == DatetimeField(dd.created_at)
        content == [i \in 1..Len(dd.content) |->
                        [fixed_text |-> JsonLoadsStr(dd.content[i].fixed_text),
                         placeholder |-> JsonLoadsStr(dd.content[i].placeholder),
                         text |-> JsonLoadsStr(dd.content[i].text)]]
        document_id == UuidField(ss.document_id)
        json_version == JsonLoadsStr(ss.json_version)
        public_key == JsonLoadsLines(ss.public_key)
        signature == JsonLoadsStr(ss.signature)
        signed_at == DatetimeField(ss.signed_at)
        results == <<id, parent, created_at, document_id, json_version,
                     public_key, signature, signed_at>>
                   \o [i \in 1..Len(content) |-> content[i].fixed_text]
                   \o [i \in 1..Len(content) |-> content[i].placeholder]
                   \o [i \in 1..Len(content) |-> content[i].text]
        failed == {i \in 1..Len(results) : ~results[i].ok}
    IN  IF failed # {} THEN Raise(results[CHOOSE i \in failed : TRUE].exc)
        ELSE Ok([doc |-> Document(id.val, parent.val, IntParse(dd.author_id),
                                  IntParse(dd.addressee_id), created_at.val,
                                  [i \in 1..Len(content) |->
                                      Paragraph(content[i].fixed_text.val,
                                                content[i].placeholder.val,
                                                content[i].text.val)]),
                 sig |-> Signature(document_id.val, json_version.val,
                                   IntParse(ss.signator_id), public_key.val,
                                   signature.val, signed_at.val)])

\* The pairs a caller saves: a document signed with the key K1, as it is,
\* with the document altered or with the artifact altered.
DocQ == [Doc1 EXCEPT !.content[1].text = S_Quote]
StorePairs(d, a) ==
    {<<d, a>>}
    \cup {<<e, a>> : e \in DocumentEdits(d)}
    \cup {<<d, b>> : b \in ArtifactEdits(a, d)}

InitStore ==
    /\ private_key = None
    /\ trusted_keys = EmptyRegistry
    /\ trusted_order = <<>>
    /\ \E d \in {Doc1, DocQ} :
        LET a == SignDocument("K1", d, 42, 7, "T2").val
        IN  /\ signed = [doc |-> d, artifact |-> a]
            /\ \E pair \in StorePairs(d, a) : doc = pair[1] /\ sig = pair[2]
    /\ last = NoCall
    /\ trusted_seen = "never"
    /\ disk = NoFile
    /\ put_history = <<>>
    /\ store_file = NoFile
    /\ stores = <<>>
    /\ started_with = EmptyRegistry
    /\ callers = <<>>
    /\ other_key = None
    /\ key_file = NoFile

\* DocumentProcessor.save_document_signature_pair(doc, sig, filename)
SaveDocumentSignaturePairCall ==
    /\ disk' = [text |-> SaveDocumentSignaturePair(doc, sig),
                doc |-> doc, sig |-> sig, loaded |-> FALSE]
    /\ last' = Call("save_document_signature_pair", "None")
    /\ UNCHANGED <<private_key, trusted_keys, trusted_order, doc, sig, signed, trusted_seen, key_file, other_key, callers, started_with, stores, store_file, put_history>>

\* doc, sig = DocumentProcessor.load_document_signature_pair(filename)
LoadDocumentSignaturePairCall ==
    /\ disk # NoFile
    /\ LET r == LoadDocumentSignaturePair(disk.text)
       IN  IF r.ok
           THEN /\ doc' = r.val.doc
                /\ sig' = r.val.sig
                /\ disk' = [disk EXCEPT !.loaded = TRUE]
                /\ last' = Call("load_document_signature_pair", "tuple")
           ELSE /\ UNCHANGED <<doc, sig, disk>>
                /\ last' = Call("load_document_signature_pair", r.exc)
    /\ UNCHANGED <<private_key, trusted_keys, trusted_order, signed, trusted_seen, key_file, other_key, callers, started_with, stores, store_file, put_history>>

NextStore ==
    \/ SaveDocumentSignaturePairCall
    \/ LoadDocumentSignaturePairCall
    \/ VerifySignatureCall

SpecStore == InitStore /\ [][NextStore]_vars

\* -------------------------------------------------------------- key files

\* Passwords a caller passes: none, the empty string, and two others.
Passwords == {None, "", "secret", "other"}

\* "password.encode() if password else None": an empty password is no password.
EffectivePassword(password) == IF password = "" THEN None ELSE password

\* private_key.private_bytes(PEM, PKCS8, encryption): the PEM block's label,
\* the key inside, and the password the body is encrypted under (None: NoEncryption).
PrivateBytesPem(k, password) ==
    [label |-> IF EffectivePassword(password) = None THEN "PRIVATE KEY"
               ELSE "ENCRYPTED PRIVATE KEY",
     der |-> k,
     encrypted_under |-> EffectivePassword(password)]

\* DocumentProcessor.save_private_key: the bytes written.
SavePrivateKey(k, password) ==
    IF k = None THEN Raise("ValueError") ELSE Ok(PrivateBytesPem(k, password))

\* A loader that hands out the key pair K1 whatever the file holds.
LoadPemPrivateKeyFixed(pem, password) ==
    IF pem.label = "PRIVATE KEY"
    THEN (IF password # None THEN Raise("TypeError") ELSE Ok("K1"))
    ELSE IF password = None THEN Raise("TypeError")
    ELSE IF password # pem.encrypted_under THEN Raise("ValueError")
    ELSE Ok("K1")

\* serialization.load_pem_private_key(data, password): TypeError when a
\* password is given for a key that is not encrypted or none for one that
\* is, ValueError when the password does not decrypt the body.
LoadPemPrivateKey(pem, password) ==
    IF pem.label = "PRIVATE KEY"
    THEN (IF password # None THEN Raise("TypeError") ELSE Ok(pem.der))
    ELSE IF password = None THEN Raise("TypeError")
    ELSE IF password # pem.encrypted_under THEN Raise("ValueError")
    ELSE Ok(pem.der)

\* DocumentProcessor.save_private_key(filename, password)
SavePrivateKeyCall ==
    /\ \E password \in Passwords :
        LET r == SavePrivateKey(private_key, password)
        IN  /\ key_file' = IF r.ok THEN [pem |-> r.val, key |-> private_key] ELSE key_file
            /\ last' = [op |-> "save_private_key", ret |-> IF r.ok THEN "None" ELSE r.exc,
                        password |-> password]
    /\ UNCHANGED <<private_key, trusted_keys, trusted_order, doc, sig, signed, trusted_seen, disk, other_key, callers, started_with, stores, store_file, put_history>>

\* DocumentProcessor.load_private_key(filename, password) on the file
\* save_private_key wrote.
LoadPrivateKeyCall ==
    /\ key_file # NoFile
    /\ \E password \in Passwords :
        LET r == LoadPemPrivateKey(key_file.pem, EffectivePassword(password))
        IN  /\ private_key' = IF r.ok THEN r.val ELSE private_key
            /\ last' = [op |-> "load_private_key", ret |-> IF r.ok THEN "key" ELSE r.exc,
                        password |-> password, file |-> key_file.pem]
    /\ UNCHANGED <<trusted_keys, trusted_order, doc, sig, signed, trusted_seen, disk, key_file, other_key, callers, started_with, stores, store_file, put_history>>

\* The caller turns to its other DocumentProcessor (a fresh DocumentProcessor()
\* at first): the calls that follow are made on that object.
SwitchProcessor ==
    /\ private_key' = other_key
    /\ other_key' = private_key
    /\ last' = NoCall
    /\ UNCHANGED <<trusted_keys, trusted_order, doc, sig, signed, trusted_seen, disk, key_file, callers, started_with, stores, store_file, put_history>>

InitKeys == Init /\ doc = Doc1

NextKeys ==
    \/ GenerateKeys
    \/ SavePrivateKeyCall
    \/ SwitchProcessor
    \/ LoadPrivateKeyCall
    \/ SignDocumentCall
    \/ VerifySignatureCall

SpecKeys == InitKeys /\ [][NextKeys]_vars

\* ------------------------------------- concurrent callers of the service
\* SignedDocumentsService holds no lock. A caller on its own thread runs a
\* method one statement at a time, and the other callers run between any two
\* of its accesses to trusted_keys.

\* How many callers run at once.
NumCallers == 2
Callers == 1..NumCallers

\* A call that has not started: its arguments and first position.
PendingCall(op, signer_id, pem, pc) ==
    [op |-> op, signer_id |-> signer_id, pem |-> pem, pc |-> pc, ret |-> "pending",
     value |-> PyNone, trusted |-> FALSE, trusted_key_pem |-> PyNone,
     read_from |-> EmptyRegistry]

\* The calls a caller may make, all about the signer of the artifact held.
ConcurrentCalls(signer_id) ==
    {PendingCall("add_trusted_key", signer_id, pem, "validate") :
        pem \in {PublicBytesPem("K1"), PublicBytesPem("K2"), PemGarbage}}
    \cup {PendingCall("remove_trusted_key", signer_id, <<>>, "test"),
          PendingCall("get_trusted_key", signer_id, <<>>, "get"),
          PendingCall("verify_document_signature", signer_id, <<>>, "trusted")}

\* The registry the callers find: empty, or the signer registered with K1.
InitConcurrent ==
    /\ private_key = None
    /\ doc = Doc1
    /\ sig = SignDocument("K1", Doc1, 42, 7, "T2").val
    /\ signed = [doc |-> doc, artifact |-> sig]
    /\ \E registered \in BOOLEAN :
        /\ trusted_keys = (IF registered THEN AddTrustedKey(EmptyRegistry, 42, PublicBytesPem("K1")).trusted_keys
                           ELSE EmptyRegistry)
        /\ trusted_order = (IF registered THEN <<42>> ELSE <<>>)
    /\ started_with = trusted_keys
    /\ callers \in [Callers -> ConcurrentCalls(42)]
    /\ last = NoCall
    /\ trusted_seen = "never"
    /\ disk = NoFile
    /\ put_history = <<>>
    /\ store_file = NoFile
    /\ stores = <<>>
    /\ other_key = None
    /\ key_file = NoFile

Returns(c, ret) == [c EXCEPT !.pc = "done", !.ret = ret]

\* add_trusted_key, first statement: the PEM text must load.
AddValidate(t) ==
    /\ callers[t].op = "add_trusted_key" /\ callers[t].pc = "validate"
    /\ callers' = [callers EXCEPT ![t] =
            IF LoadPemPublicKey(@.pem).ok THEN [@ EXCEPT !.pc = "insert"]
            ELSE Returns(@, "ValueError")]
    /\ UNCHANGED <<private_key, trusted_keys, trusted_order, doc, sig, signed, last, trusted_seen, disk, key_file, other_key, started_with, stores, store_file, put_history>>

\* add_trusted_key, second statement: self.trusted_keys[signer_id] = public_key_pem
AddInsert(t) ==
    /\ callers[t].op = "add_trusted_key" /\ callers[t].pc = "insert"
    /\ trusted_keys' = [x \in DOMAIN trusted_keys \cup {callers[t].signer_id} |->
                            IF x = callers[t].signer_id THEN callers[t].pem ELSE trusted_keys[x]]
    /\ trusted_order' = DictKeysAfterSet(trusted_order, callers[t].signer_id)
    /\ callers' = [callers EXCEPT ![t] = Returns(@, "None")]
    /\ UNCHANGED <<private_key, doc, sig, signed, last, trusted_seen, disk, key_file, other_key, started_with, stores, store_file, put_history>>

\* remove_trusted_key, first statement: if signer_id in self.trusted_keys
RemoveTest(t) ==
    /\ callers[t].op = "remove_trusted_key" /\ callers[t].pc = "test"
    /\ callers' = [callers EXCEPT ![t] =
            IF @.signer_id \in DOMAIN trusted_keys THEN [@ EXCEPT !.pc = "del"]
            ELSE Returns(@, "False")]
    /\ UNCHANGED <<private_key, trusted_keys, trusted_order, doc, sig, signed, last, trusted_seen, disk, key_file, other_key, started_with, stores, store_file, put_history>>

\* remove_trusted_key, second statement: del self.trusted_keys[signer_id],
\* which raises KeyError when the entry is gone.
RemoveDel(t) ==
    /\ callers[t].op = "remove_trusted_key" /\ callers[t].pc = "del"
    /\ IF callers[t].signer_id \in DOMAIN trusted_keys
       THEN /\ trusted_keys' = [x \in DOMAIN trusted_keys \ {callers[t].signer_id} |-> trusted_keys[x]]
            /\ trusted_order' = DictKeysAfterDel(trusted_order, callers[t].signer_id)
            /\ callers' = [callers EXCEPT ![t] = Returns(@, "True")]
       ELSE /\ UNCHANGED <<trusted_keys, trusted_order>>
            /\ callers' = [callers EXCEPT ![t] = Returns(@, "KeyError")]
    /\ UNCHANGED <<private_key, doc, sig, signed, last, trusted_seen, disk, key_file, other_key, started_with, stores, store_file, put_history>>

\* get_trusted_key: one dict.get
GetStep(t) ==
    /\ callers[t].op = "get_trusted_key" /\ callers[t].pc = "get"
    /\ LET v == GetTrustedKey(trusted_keys, callers[t].signer_id)
       IN  callers' = [callers EXCEPT ![t] =
                [Returns(@, IF v = PyNone THEN "None" ELSE "str") EXCEPT !.value = v]]
    /\ UNCHANGED <<private_key, trusted_keys, trusted_order, doc, sig, signed, last, trusted_seen, disk, key_file, other_key, started_with, stores, store_file, put_history>>

\* verify_document_signature, to the lookup: the signer must be in
\* trusted_keys and the ids must agree.
VerifyTrusted(t) ==
    /\ callers[t].op = "verify_document_signature" /\ callers[t].pc = "trusted"
    /\ callers' = [callers EXCEPT ![t] =
            IF sig.signator_id \notin DOMAIN trusted_keys THEN Returns(@, "False")
            ELSE IF doc.id # sig.document_id THEN Returns([@ EXCEPT !.trusted = TRUE], "False")
            ELSE [@ EXCEPT !.pc = "lookup", !.trusted = TRUE]]
    /\ UNCHANGED <<private_key, trusted_keys, trusted_order, doc, sig, signed, last, trusted_seen, disk, key_file, other_key, started_with, stores, store_file, put_history>>

\* What a verify_document_signature handler does with the KeyError of a
\* lookup: this one lets it reach the caller.
LookupFailedUncaught == "KeyError"

\* "except Exception: return False" around the lookup.
LookupFailed == "False"

\* verify_document_signature, the lookup: trusted_key_pem = self.trusted_keys[...]
VerifyLookup(t) ==
    /\ callers[t].op = "verify_document_signature" /\ callers[t].pc = "lookup"
    /\ callers' = [callers EXCEPT ![t] =
            IF sig.signator_id \notin DOMAIN trusted_keys THEN Returns(@, LookupFailed)
            ELSE [@ EXCEPT !.pc = "check",
                           !.trusted_key_pem = PyStr(trusted_keys[sig.signator_id]),
                           !.read_from = trusted_keys]]
    /\ UNCHANGED <<private_key, trusted_keys, trusted_order, doc, sig, signed, last, trusted_seen, disk, key_file, other_key, started_with, stores, store_file, put_history>>

\* verify_document_signature, after the lookup: everything is decided on the
\* key text that was read.
VerifyCheck(t) ==
    /\ callers[t].op = "verify_document_signature" /\ callers[t].pc = "check"
    /\ LET read == [x \in {sig.signator_id} |-> callers[t].trusted_key_pem.val]
       IN  callers' = [callers EXCEPT ![t] =
                Returns(@, Outcome(VerifyDocumentSignature(read, doc, sig)))]
    /\ UNCHANGED <<private_key, trusted_keys, trusted_order, doc, sig, signed, last, trusted_seen, disk, key_file, other_key, started_with, stores, store_file, put_history>>

NextConcurrent ==
    \E t \in Callers :
        \/ AddValidate(t)
        \/ AddInsert(t)
        \/ RemoveTest(t)
        \/ RemoveDel(t)
        \/ GetStep(t)
        \/ VerifyTrusted(t)
        \/ VerifyLookup(t)
        \/ VerifyCheck(t)

SpecConcurrent == InitConcurrent /\ [][NextConcurrent]_vars

\* One call run alone, start to end, on the registry tk.
SerialCall(c, tk, d, a) ==
    IF c.op = "add_trusted_key"
    THEN LET r == AddTrustedKey(tk, c.signer_id, c.pem)
         IN  [ret |-> r.ret, value |-> PyNone, trusted_keys |-> r.trusted_keys]
    ELSE IF c.op = "remove_trusted_key"
    THEN LET r == RemoveTrustedKey(tk, c.signer_id)
         IN  [ret |-> r.ret, value |-> PyNone, trusted_keys |-> r.trusted_keys]
    ELSE IF c.op = "get_trusted_key"
    THEN LET v == GetTrustedKey(tk, c.signer_id)
         IN  [ret |-> IF v = PyNone THEN "None" ELSE "str", value |-> v, trusted_keys |-> tk]
    ELSE [ret |-> Outcome(VerifyDocumentSignature(tk, d, a)), value |-> PyNone,
          trusted_keys |-> tk]

RECURSIVE SerialRun(_, _, _, _, _)
\* The calls of cs run one after another in the order given, from tk: TRUE
\* when every call returns what cs records and the registry ends as final.
SerialRun(order, cs, tk, final, da) ==
    IF order = <<>> THEN tk = final
    ELSE LET r == SerialCall(cs[Head(order)], tk, da[1], da[2])
         IN  /\ r.ret = cs[Head(order)].ret
             /\ r.value = cs[Head(order)].value
             /\ SerialRun(Tail(order), cs, r.trusted_keys, final, da)

\* The orders in which the callers can run one after another.
SerialOrders ==
    {o \in [1..NumCallers -> Callers] : \A i, j \in 1..NumCallers : o[i] = o[j] => i = j}

AllReturned == \A t \in Callers : callers[t].pc = "done"

\* ------------------------------------ one caller of processor and service
\* A caller that holds a DocumentProcessor and the SignedDocumentsService and
\* signs and verifies Doc1 while the registry is edited.

\* The most signers this caller registers at a time.
MaxRegistered == 1

InitFrame == Init /\ doc = Doc1

NextFrame ==
    \/ GenerateKeys
    \/ SignDocumentCall
    \/ PresentDocument
    \/ (Len(trusted_order) < MaxRegistered /\ AddTrustedKeyCall)
    \/ RemoveTrustedKeyCall
    \/ (sig # NoSignature /\ VerifyDocumentSignatureCall)
    \/ VerifySignatureCall

SpecFrame == InitFrame /\ [][NextFrame]_vars

\* ------------------------------------------------- EncryptedStoreService
\* secure_storage/service.py: a dict of strings kept in a file encrypted
\* under a key derived from the master password and the file's salt.

S_foo == <<"f", "o", "o">>
S_alpha == <<"a", "l", "p", "h", "a">>
S_bar == <<"b", "a", "r">>
S_beta == <<"b", "\"", "\\", "a">>
StoreKeys == {S_foo, S_alpha}
StoreValues == {S_bar, S_beta}
\* The puts the callers make: those of test_roundtrip, and foo put again.
StorePuts == {<<S_foo, S_bar>>, <<S_foo, S_beta>>, <<S_alpha, S_beta>>}
MasterPasswords == {"superpassword", "guess"}

\* os.urandom(16)
Urandom == {"salt1", "salt2"}

EmptyStore == [k \in {} |-> <<>>]

\* EncryptedStoreService.__init__
NewStore(master_password) ==
    [master_password |-> master_password, _store |-> EmptyStore, _keys |-> <<>>,
     _opened |-> FALSE, _salt |-> None]

\* EncryptedStoreService._derive_key: PBKDF2 of the password under the salt.
DeriveKey(master_password, salt) == <<master_password, salt>>

\* Fernet(key).encrypt(data): a token that only the same key opens.
FernetEncrypt(key, data) == [key |-> key, data |-> data]

\* Fernet(key).decrypt(token)
FernetDecrypt(key, token) ==
    IF token.key = key THEN Ok(token.data) ELSE Raise("InvalidToken")

\* A file of no bytes: no salt, and no token any key opens.
EmptyFile == [salt |-> "", token |-> [key |-> <<>>, data |-> <<>>]]

\* A json.dumps that leaves out the member put last.
JsonDumpsDictDropsLast(store, keys) ==
    [i \in 1..(Len(keys) - 1) |-> <<JsonDumpsStr(keys[i]), JsonDumpsStr(store[keys[i]])>>]

\* json.dumps of a dict of str: its members in the dict's order, each key and
\* value written as a JSON string.
JsonDumpsDict(store, keys) ==
    [i \in 1..Len(keys) |-> <<JsonDumpsStr(keys[i]), JsonDumpsStr(store[keys[i]])>>]

\* json.loads of such an object: the members decoded, a repeated key keeping
\* its first place and its last value.
JsonLoadsDict(members) ==
    LET k == [i \in 1..Len(members) |-> JsonLoadsStr(members[i][1])]
        v == [i \in 1..Len(members) |-> JsonLoadsStr(members[i][2])]
    IN  IF \E i \in 1..Len(members) : ~k[i].ok \/ ~v[i].ok THEN Raise("JSONDecodeError")
        ELSE LET First(i) == \A j \in 1..(i - 1) : k[j].val # k[i].val
                 LastOf(key) == CHOOSE i \in 1..Len(members) :
                                    /\ k[i].val = key
                                    /\ \A j \in (i + 1)..Len(members) : k[j].val # key
                 marked == [i \in 1..Len(members) |-> IF First(i) THEN k[i].val ELSE NoChar]
             IN  Ok([_store |-> [key \in {k[i].val : i \in 1..Len(members)} |-> v[LastOf(key)].val],
                     _keys |-> SelectSeq(marked, LAMBDA x : x # NoChar)])

\* EncryptedStoreService.load: a new store when the file is missing, else the
\* salt is taken from the file before the rest is decrypted and parsed.
StoreLoad(s, file, urandom) ==
    IF file = NoFile
    THEN [ret |-> "None",
          s |-> [s EXCEPT !._salt = urandom, !._store = EmptyStore, !._keys = <<>>,
                          !._opened = TRUE]]
    ELSE LET salted == [s EXCEPT !._salt = file.salt]
             store_json == FernetDecrypt(DeriveKey(s.master_password, file.salt), file.token)
         IN  IF ~store_json.ok THEN [ret |-> store_json.exc, s |-> salted]
             ELSE LET loaded == JsonLoadsDict(store_json.val)
                  IN  IF ~loaded.ok THEN [ret |-> loaded.exc, s |-> salted]
                      ELSE [ret |-> "None",
                            s |-> [salted EXCEPT !._store = loaded.val._store,
                                                 !._keys = loaded.val._keys,
                                                 !._opened = TRUE]]

\* EncryptedStoreService.list_keys
StoreListKeys(s) ==
    IF ~s._opened THEN Raise("RuntimeError") ELSE Ok([i \in 1..Len(s._keys) |-> s._keys[i]])

\* EncryptedStoreService.get
StoreGet(s, key) ==
    IF ~s._opened THEN Raise("RuntimeError")
    ELSE Ok(IF key \in DOMAIN s._store THEN PyStr(s._store[key]) ELSE PyNone)

\* EncryptedStoreService.put
StorePut(s, key, value) ==
    IF ~s._opened THEN [ret |-> "RuntimeError", s |-> s]
    ELSE [ret |-> "None",
          s |-> [s EXCEPT !._store = [k \in DOMAIN s._store \cup {key} |->
                                          IF k = key THEN value ELSE s._store[k]],
                          !._keys = DictKeysAfterSet(s._keys, key)]]

\* A lock that keeps the salt in the object.
StoreLockKeepsSalt(s, file, urandom) ==
    IF ~s._opened THEN [ret |-> "RuntimeError", s |-> s, file |-> file]
    ELSE [ret |-> "None",
          s |-> [s EXCEPT !._store = EmptyStore, !._keys = <<>>, !._opened = FALSE],
          file |-> [salt |-> s._salt,
                    token |-> FernetEncrypt(DeriveKey(s.master_password, s._salt),
                                            JsonDumpsDict(s._store, s._keys))]]

\* EncryptedStoreService.lock: the key comes from the salt (a fresh one when
\* the salt is empty or None), the file is rewritten as salt then token, and
\* the object is cleared. f.write(None) raises after the file was truncated.
StoreLock(s, file, urandom) ==
    IF ~s._opened THEN [ret |-> "RuntimeError", s |-> s, file |-> file]
    ELSE LET key == DeriveKey(s.master_password,
                              IF s._salt \in {None, ""} THEN urandom ELSE s._salt)
             encrypted == FernetEncrypt(key, JsonDumpsDict(s._store, s._keys))
         IN  IF s._salt = None THEN [ret |-> "TypeError", s |-> s, file |-> EmptyFile]
             ELSE [ret |-> "None",
                   s |-> [s EXCEPT !._store = EmptyStore, !._keys = <<>>,
                                   !._opened = FALSE, !._salt = None],
                   file |-> [salt |-> s._salt, token |-> encrypted]]

\* The objects made on the one path: s and s2 of test_roundtrip.
StoreObjects == {1, 2}

InitEncryptedStore ==
    /\ private_key = None
    /\ trusted_keys = EmptyRegistry
    /\ trusted_order = <<>>
    /\ doc = Doc1
    /\ sig = NoSignature
    /\ signed = NoSigned
    /\ last = NoCall
    /\ trusted_seen = "never"
    /\ disk = NoFile
    /\ other_key = None
    /\ key_file = NoFile
    /\ callers = <<>>
    /\ started_with = EmptyRegistry
    /\ \E pw \in MasterPasswords :
        stores = [o \in StoreObjects |->
                    NewStore(IF o = 1 THEN "superpassword" ELSE pw)]
    /\ store_file = NoFile
    /\ put_history = [of_store |-> [o \in StoreObjects |-> EmptyStore], of_file |-> EmptyStore]

StoreCall(op, ret, o, value) == [op |-> op, ret |-> ret, store |-> o, value |-> value]

\* s.load()
StoreLoadCall ==
    /\ \E o \in StoreObjects, urandom \in Urandom :
        LET r == StoreLoad(stores[o], store_file, urandom)
        IN  /\ stores' = [stores EXCEPT ![o] = r.s]
            /\ last' = StoreCall("load", r.ret, o, PyNone)
            /\ put_history' =
                IF r.ret = "None"
                THEN [put_history EXCEPT !.of_store[o] =
                        IF store_file = NoFile THEN EmptyStore ELSE put_history.of_file]
                ELSE put_history
    /\ UNCHANGED <<private_key, trusted_keys, trusted_order, doc, sig, signed, trusted_seen, disk, key_file, other_key, callers, started_with, store_file>>

\* s.list_keys()
StoreListKeysCall ==
    /\ \E o \in StoreObjects :
        LET r == StoreListKeys(stores[o])
        IN  last' = StoreCall("list_keys", IF r.ok THEN "list" ELSE r.exc, o,
                              IF r.ok THEN r.val ELSE PyNone)
    /\ UNCHANGED <<private_key, trusted_keys, trusted_order, doc, sig, signed, trusted_seen, disk, key_file, other_key, callers, started_with, stores, store_file, put_history>>

\* s.get(key)
StoreGetCall ==
    /\ \E o \in StoreObjects, key \in StoreKeys :
        LET r == StoreGet(stores[o], key)
        IN  last' = [op |-> "get", ret |-> IF r.ok THEN r.val.type ELSE r.exc,
                     store |-> o, value |-> IF r.ok THEN r.val ELSE PyNone, key |-> key]
    /\ UNCHANGED <<private_key, trusted_keys, trusted_order, doc, sig, signed, trusted_seen, disk, key_file, other_key, callers, started_with, stores, store_file, put_history>>

\* s.put(key, value)
StorePutCall ==
    /\ \E o \in StoreObjects, kv \in StorePuts :
        LET key == kv[1]
            value == kv[2]
            r == StorePut(stores[o], key, value)
        IN  /\ stores' = [stores EXCEPT ![o] = r.s]
            /\ last' = StoreCall("put", r.ret, o, PyNone)
            /\ put_history' =
                IF r.ret = "None"
                THEN [put_history EXCEPT !.of_store[o] =
                        [k \in DOMAIN @ \cup {key} |-> IF k = key THEN value ELSE @[k]]]
                ELSE put_history
    /\ UNCHANGED <<private_key, trusted_keys, trusted_order, doc, sig, signed, trusted_seen, disk, key_file, other_key, callers, started_with, store_file>>

\* s.lock()
StoreLockCall ==
    /\ \E o \in StoreObjects, urandom \in Urandom :
        LET r == StoreLock(stores[o], store_file, urandom)
        IN  /\ stores' = [stores EXCEPT ![o] = r.s]
            /\ store_file' = r.file
            /\ last' = StoreCall("lock", r.ret, o, PyNone)
            /\ put_history' =
                IF r.ret = "None"
                THEN [put_history EXCEPT !.of_file = put_history.of_store[o],
                                         !.of_store[o] = EmptyStore]
                ELSE put_history
    /\ UNCHANGED <<private_key, trusted_keys, trusted_order, doc, sig, signed, trusted_seen, disk, key_file, other_key, callers, started_with>>

\* os.remove(path)
StoreRemoveFile ==
    /\ store_file # NoFile
    /\ store_file' = NoFile
    /\ last' = Call("os.remove", "None")
    /\ put_history' = [put_history EXCEPT !.of_file = EmptyStore]
    /\ UNCHANGED <<private_key, trusted_keys, trusted_order, doc, sig, signed, trusted_seen, disk, key_file, other_key, callers, started_with, stores>>

NextEncryptedStore ==
    \/ StoreLoadCall
    \/ StoreListKeysCall
    \/ StoreGetCall
    \/ StorePutCall
    \/ StoreLockCall
    \/ StoreRemoveFile

SpecEncryptedStore == InitEncryptedStore /\ [][NextEncryptedStore]_vars

\* --------------------------------------------------------- DocumentClient
\* signed_docs/client.py: the console client keeps a processor, the current
\* document and, once one was signed or loaded, the current signature. Here
\* doc is current_document and sig is current_signature.

NoDocument == [absent |-> TRUE]

\* DocumentClient.__init__: no document; current_signature is not yet an attribute.
InitClient ==
    /\ private_key = None
    /\ trusted_keys = EmptyRegistry
    /\ trusted_order = <<>>
    /\ doc = NoDocument
    /\ sig = NoSignature
    /\ signed = NoSigned
    /\ last = NoCall
    /\ trusted_seen = "never"
    /\ disk = NoFile
    /\ put_history = <<>>
    /\ store_file = NoFile
    /\ stores = <<>>
    /\ started_with = EmptyRegistry
    /\ callers = <<>>
    /\ other_key = None
    /\ key_file = NoFile

\* The ids some object in memory or in the file carries: uuid4() returns none of them.
IdsInUse ==
    (IF doc = NoDocument THEN {} ELSE {doc.id})
    \cup (IF sig = NoSignature THEN {} ELSE {sig.document_id})
    \cup (IF disk = NoFile THEN {} ELSE {disk.doc.id, disk.sig.document_id})

\* The paragraph lists typed in: none, or one paragraph.
ClientContents == {<<>>, <<Paragraph(S_Dear, S_name, S_John)>>}

\* DocumentClient.create_document: the ids typed in must be integers and one
\* paragraph at least is required; the document gets a fresh id.
ClientCreateDocument ==
    /\ \E integers \in BOOLEAN, author_id \in {1}, addressee_id \in {2},
          paragraphs \in ClientContents, id \in UUIDs \ IdsInUse, now \in Clock :
        IF ~integers
        THEN doc' = doc /\ last' = Call("create_document", "Invalid input")
        ELSE IF paragraphs = <<>>
        THEN doc' = doc /\ last' = Call("create_document", "At least one paragraph required")
        ELSE /\ doc' = Document(id, None, author_id, addressee_id, now, paragraphs)
             /\ last' = Call("create_document", "created")
    /\ UNCHANGED <<private_key, trusted_keys, trusted_order, sig, signed, trusted_seen, disk, key_file, other_key, callers, started_with, stores, store_file, put_history>>

\* A sign_current_document that keeps the signature the client already holds.
ClientSignCurrentDocumentKeepsFirst ==
    /\ IF doc = NoDocument
       THEN sig' = sig /\ last' = Call("sign_current_document", "No document loaded")
       ELSE IF private_key = None
       THEN sig' = sig /\ last' = Call("sign_current_document", "No private key loaded")
       ELSE \E integer \in BOOLEAN, signator_id \in {42}, salt \in Salts, now \in Clock :
            LET r == SignDocument(private_key, doc, signator_id, salt, now)
            IN  IF ~integer
                THEN sig' = sig /\ last' = Call("sign_current_document", "Invalid input")
                ELSE IF r.ok
                THEN /\ sig' = IF sig = NoSignature THEN r.val ELSE sig
                     /\ last' = Call("sign_current_document", "signed")
                ELSE sig' = sig /\ last' = Call("sign_current_document", "Error")
    /\ UNCHANGED <<private_key, trusted_keys, trusted_order, doc, signed, trusted_seen, disk, key_file, other_key, callers, started_with, stores, store_file, put_history>>

\* DocumentClient.sign_current_document: needs a document and a key, then
\* keeps what sign_document returns as current_signature.
ClientSignCurrentDocument ==
    /\ IF doc = NoDocument
       THEN sig' = sig /\ last' = Call("sign_current_document", "No document loaded")
       ELSE IF private_key = None
       THEN sig' = sig /\ last' = Call("sign_current_document", "No private key loaded")
       ELSE \E integer \in BOOLEAN, signator_id \in {42}, salt \in Salts, now \in Clock :
            LET r == SignDocument(private_key, doc, signator_id, salt, now)
            IN  IF ~integer
                THEN sig' = sig /\ last' = Call("sign_current_document", "Invalid input")
                ELSE IF r.ok
                THEN /\ sig' = r.val
                     /\ last' = Call("sign_current_document", "signed")
                ELSE sig' = sig /\ last' = Call("sign_current_document", "Error")
    /\ UNCHANGED <<private_key, trusted_keys, trusted_order, doc, signed, trusted_seen, disk, key_file, other_key, callers, started_with, stores, store_file, put_history>>

\* DocumentClient.verify_document
ClientVerifyDocument ==
    /\ last' = Call("verify_document",
                    IF sig = NoSignature THEN "No signature available"
                    ELSE IF doc = NoDocument THEN "No document loaded"
                    ELSE IF VerifySignature(doc, sig) = Ok(TRUE) THEN "VALID"
                    ELSE "INVALID")
    /\ UNCHANGED <<private_key, trusted_keys, trusted_order, doc, sig, signed, trusted_seen, disk, key_file, other_key, callers, started_with, stores, store_file, put_history>>

\* DocumentClient.save_document_signature
ClientSaveDocumentSignature ==
    /\ IF doc = NoDocument
       THEN disk' = disk /\ last' = Call("save_document_signature", "No document loaded")
       ELSE IF sig = NoSignature
       THEN disk' = disk /\ last' = Call("save_document_signature", "No signature available")
       ELSE /\ disk' = [text |-> SaveDocumentSignaturePair(doc, sig),
                        doc |-> doc, sig |-> sig, loaded |-> FALSE]
            /\ last' = Call("save_document_signature", "saved")
    /\ UNCHANGED <<private_key, trusted_keys, trusted_order, doc, sig, signed, trusted_seen, key_file, other_key, callers, started_with, stores, store_file, put_history>>

\* DocumentClient.load_document_signature: both attributes are assigned from
\* the pair the file holds, or neither.
ClientLoadDocumentSignature ==
    /\ IF disk = NoFile
       THEN /\ UNCHANGED <<doc, sig>>
            /\ last' = Call("load_document_signature", "not found")
       ELSE LET r == LoadDocumentSignaturePair(disk.text)
            IN  IF r.ok
                THEN /\ doc' = r.val.doc
                     /\ sig' = r.val.sig
                     /\ last' = Call("load_document_signature", "loaded")
                ELSE /\ UNCHANGED <<doc, sig>>
                     /\ last' = Call("load_document_signature", "Error")
    /\ UNCHANGED <<private_key, trusted_keys, trusted_order, signed, trusted_seen, disk, key_file, other_key, callers, started_with, stores, store_file, put_history>>

\* DocumentClient.run: one menu choice after another.
NextClient ==
    \/ GenerateKeys
    \/ ClientCreateDocument
    \/ ClientSignCurrentDocument
    \/ ClientVerifyDocument
    \/ ClientSaveDocumentSignature
    \/ ClientLoadDocumentSignature

SpecClient == InitClient /\ [][NextClient]_vars

\* The client holds a document and a signature.
BothSet == doc # NoDocument /\ sig # NoSignature

\* ----------------------------------------------------------------- claims

Booleans == {"True", "False"}

\* C1 (round trip): verify_signature called on the document and the artifact
\* exactly as sign_document left them returns True.
C1_RoundTrip ==
    (last.op = "verify_signature" /\ Pristine) => last.ret = "True"

C1_Witness ==
    /\ last.op = "verify_signature" /\ Pristine
    /\ doc = Doc2 /\ sig.signator_id = 42 /\ sig.public_key = PublicBytesPem("K2")

\* C2 (tamper detection): with the artifact as signed and the document
\* changed in one field, verify_signature returns False.
C2_TamperDetection ==
    (/\ last.op = "verify_signature"
     /\ signed # NoSigned /\ sig = signed.artifact
     /\ doc \in DocumentEdits(signed.doc)) => last.ret = "False"

C2_Witness ==
    /\ last.op = "verify_signature"
    /\ signed # NoSigned /\ sig = signed.artifact
    /\ signed.doc = Doc2
    /\ doc = [Doc2 EXCEPT !.content[2].text = S_Quote]

\* C3 (key substitution), as claimed: an artifact whose public_key is replaced
\* by the PEM of another key is rejected by the processor, and
\* crypto_utils.verify_signature returns False for a signature made with key A
\* and the public key of any other key B.
C3_KeySubstitution ==
    /\ (/\ last.op = "verify_signature"
        /\ signed # NoSigned /\ doc = signed.doc
        /\ sig = [signed.artifact EXCEPT !.public_key = sig.public_key]
        /\ LoadPemPublicKey(sig.public_key).ok
        /\ LoadPemPublicKey(sig.public_key).val # LoadPemPublicKey(signed.artifact.public_key).val)
       => last.ret = "False"
    /\ (/\ last.op = "crypto_utils.verify_signature"
        /\ last.signature = PyBytes(last.signed_bytes)
        /\ last.public_key # last.signed_with)
       => last.ret = "False"

\* C4 (wrong-document replay): the artifact as signed, presented with a
\* document of another id, is rejected whatever the document's other fields.
C4_WrongDocumentReplay ==
    (/\ last.op = "verify_signature"
     /\ signed # NoSigned /\ sig = signed.artifact
     /\ doc.id # signed.doc.id) => last.ret = "False"

C4_Witness ==
    /\ last.op = "verify_signature"
    /\ signed # NoSigned /\ sig = signed.artifact
    /\ signed.doc = Doc1 /\ doc = Doc2

\* The artifact's signature, hex-decoded, is a valid signature over the bytes
\* of its json_version under the key parsed from its public_key.
SignatureOverJsonValid(a) ==
    LET public_key == LoadPemPublicKey(a.public_key)
        signature_bytes == BytesFromHex(a.signature)
    IN  /\ public_key.ok
        /\ signature_bytes.ok
        /\ PssValid(public_key.val, signature_bytes.val, Utf8Encode(a.json_version))

\* C5 (registry gating): verify_document_signature returns True exactly when
\* verify_signature does, the signer is registered, and the registered text
\* equals the artifact's public_key.
C5_RegistryGating ==
    last.op = "verify_document_signature" =>
        /\ last.ret \in Booleans
        /\ last.ret = "True" <=>
            /\ VerifySignature(doc, sig) = Ok(TRUE)
            /\ sig.signator_id \in DOMAIN trusted_keys
            /\ trusted_keys[sig.signator_id] = sig.public_key

C5_Witness ==
    /\ last.op = "verify_document_signature"
    /\ VerifySignature(doc, sig) = Ok(TRUE)
    /\ sig.signator_id \notin DOMAIN trusted_keys
    /\ trusted_keys # EmptyRegistry

\* C6 (registry mutation): once verify_document_signature has accepted the
\* pair and the signer has then been removed, every verify_document_signature
\* returns False until the signer is added again with the artifact's key.
C6_RegistryMutation ==
    (last.op = "verify_document_signature" /\ trusted_seen = "removed") => last.ret = "False"

C6_Witness ==
    /\ last.op = "verify_document_signature" /\ trusted_seen = "removed"
    /\ sig.signator_id = 42
    /\ 42 \in DOMAIN trusted_keys

\* C7 (fail closed): both verifications return a boolean on every input,
\* whatever the artifact's public_key and signature hold.
C7_FailClosed ==
    last.op \in {"verify_signature", "verify_document_signature"} => last.ret \in Booleans

C7_Witness ==
    /\ last.op = "verify_document_signature"
    /\ sig.public_key = PublicBytesPem("E1")
    /\ sig.signator_id \in DOMAIN trusted_keys
    /\ trusted_keys[sig.signator_id] = sig.public_key

\* C8 (bare validity): verify_signature returns True exactly when the ids
\* agree, the document's canonical JSON is the stored json_version, and the
\* signature is valid over json_version under the artifact's key.
C8_BareValidity ==
    last.op = "verify_signature" =>
        /\ last.ret \in Booleans
        /\ last.ret = "True" <=>
            /\ sig.document_id = doc.id
            /\ DocumentToCanonicalJson(doc) = sig.json_version
            /\ SignatureOverJsonValid(sig)

C8_Witness ==
    /\ last.op = "verify_signature"
    /\ sig.document_id # doc.id
    /\ DocumentToCanonicalJson(doc) = sig.json_version
    /\ SignatureOverJsonValid(sig)

\* C9 (key-type mismatch), as claimed: crypto_utils.verify_signature returns
\* False for an RSA signature and a public key of another scheme.
C9_KeyTypeMismatch ==
    (/\ last.op = "crypto_utils.verify_signature"
     /\ last.signature = PyBytes(last.signed_bytes)
     /\ KeyAlgorithm[last.signed_with] = "RSA"
     /\ KeyAlgorithm[last.public_key] # "RSA") => last.ret = "False"

\* C10 (no signature), as claimed: crypto_utils.verify_signature returns
\* False for the signature None and for b'' under an RSA public key.
C10_NoSignature ==
    (/\ last.op = "crypto_utils.verify_signature"
     /\ last.signature \in {PyNone, PyBytes(<<>>)}
     /\ KeyAlgorithm[last.public_key] = "RSA") => last.ret = "False"

\* C11 (signature byte tampering): a signature with bits changed is rejected:
\* crypto_utils.verify_signature returns False for the signed text and the
\* signer's public key, and verify_signature returns False for the signed
\* document and the artifact that differs only in carrying the altered hex.
C11_SignatureTampering ==
    /\ (/\ last.op = "crypto_utils.verify_signature"
        /\ last.signature.type = "bytes"
        /\ Len(last.signature.val) = Len(last.signed_bytes)
        /\ last.signature.val # last.signed_bytes
        /\ last.text = last.signed_text
        /\ last.public_key = last.signed_with)
       => last.ret = "False"
    /\ (/\ last.op = "verify_signature"
        /\ signed # NoSigned /\ doc = signed.doc
        /\ sig = [signed.artifact EXCEPT !.signature = sig.signature]
        /\ BytesFromHex(sig.signature).ok
        /\ BytesFromHex(sig.signature).val # BytesFromHex(signed.artifact.signature).val)
       => last.ret = "False"

C11_Witness ==
    /\ last.op = "verify_signature"
    /\ signed # NoSigned /\ doc = signed.doc
    /\ sig = [signed.artifact EXCEPT !.signature = sig.signature]
    /\ LET b == BytesFromHex(signed.artifact.signature).val
       IN  BytesFromHex(sig.signature) = Ok([b EXCEPT ![Len(b)] = FlipBit(b[Len(b)], 0)])

\* C12 (stored-payload tampering): an artifact whose json_version alone is
\* replaced by the canonical JSON of a modified document d_t is rejected by
\* verify_signature with the signed document and with d_t.
C12_StoredPayloadTampering ==
    (/\ last.op = "verify_signature"
     /\ signed # NoSigned
     /\ sig.json_version # signed.artifact.json_version
     /\ sig = [signed.artifact EXCEPT !.json_version = sig.json_version]
     /\ \E d_t \in DocumentEdits(signed.doc) :
            sig.json_version = DocumentJson(d_t) /\ doc \in {signed.doc, d_t})
    => last.ret = "False"

C12_Witness ==
    /\ last.op = "verify_signature"
    /\ signed # NoSigned
    /\ sig = [signed.artifact EXCEPT !.json_version = sig.json_version]
    /\ doc = [signed.doc EXCEPT !.content[1].text = S_Jane]
    /\ sig.json_version = DocumentJson(doc)
    /\ sig.document_id = doc.id

\* C13 (persistence idempotence): the pair load_document_signature_pair
\* returns for the file save_document_signature_pair wrote equals the saved
\* pair in every field verification compares, and verify_signature returns
\* for it what it returns for the saved pair.
C13_PersistenceIdempotence ==
    (disk # NoFile /\ disk.loaded) =>
        /\ doc.id = disk.doc.id
        /\ DocumentToCanonicalJson(doc) = DocumentToCanonicalJson(disk.doc)
        /\ sig.document_id = disk.sig.document_id
        /\ sig.json_version = disk.sig.json_version
        /\ sig.public_key = disk.sig.public_key
        /\ sig.signature = disk.sig.signature
        /\ last.op = "verify_signature" =>
                last.ret = Outcome(VerifySignature(disk.doc, disk.sig))

C13_Witness ==
    /\ disk # NoFile /\ disk.loaded
    /\ last.op = "verify_signature" /\ last.ret = "True"
    /\ disk.doc = DocQ

\* C14 (canonical encoding injective): the canonical JSON of the document in
\* hand equals the json_version sign_document computed for the signed
\* document exactly when the two documents are equal in every field; so
\* verify_signature accepts the artifact with that document only.
C14_CanonicalInjective ==
    (signed # NoSigned /\ sig = signed.artifact) =>
        /\ (DocumentToCanonicalJson(doc) = sig.json_version) <=> (doc = signed.doc)
        /\ last.op = "verify_signature" => (last.ret = "True" <=> doc = signed.doc)

C14_Witness ==
    /\ signed # NoSigned /\ sig = signed.artifact
    /\ last.op = "verify_signature"
    /\ Len(doc.content) = 2
    /\ doc # signed.doc
    /\ doc = [signed.doc EXCEPT !.content = <<doc.content[1], doc.content[2]>>]
    /\ signed.doc.content = <<doc.content[2], doc.content[1]>>

\* C15 (add validates before inserting): add_trusted_key with a text that
\* does not parse as a public key raises ValueError and leaves the registry,
\* the signer's earlier key included, as it was.
C15_AddValidates ==
    [][(last'.op = "add_trusted_key" /\ ~LoadPemPublicKey(last'.public_key_pem).ok)
        => /\ last'.ret = "ValueError"
           /\ trusted_keys' = trusted_keys
           /\ trusted_order' = trusted_order]_vars

C15_Witness ==
    /\ last.op = "add_trusted_key" /\ last.ret = "ValueError"
    /\ last.signer_id \in DOMAIN trusted_keys
    /\ trusted_keys[last.signer_id] = PublicBytesPem("K1")

\* C16 (one key per signer, add overwrites): the registry holds every signer
\* id once; after a successful add_trusted_key(s, k) get_trusted_key(s) is k;
\* and verify_document_signature rejects an artifact whose key is not the one
\* now registered for its signer.
C16_OneKeyPerSigner ==
    /\ [](/\ \A i, j \in 1..Len(trusted_order) : trusted_order[i] = trusted_order[j] => i = j
          /\ {trusted_order[i] : i \in 1..Len(trusted_order)} = DOMAIN trusted_keys
          /\ (/\ last.op = "verify_document_signature"
              /\ sig.signator_id \in DOMAIN trusted_keys
              /\ trusted_keys[sig.signator_id] # sig.public_key) => last.ret = "False")
    /\ [][(last'.op = "add_trusted_key" /\ last'.ret = "None")
            => GetTrustedKey(trusted_keys', last'.signer_id) = PyStr(last'.public_key_pem)]_vars

C16_Witness ==
    /\ last.op = "verify_document_signature" /\ last.ret = "False"
    /\ trusted_seen = "accepted"
    /\ sig.signator_id \in DOMAIN trusted_keys
    /\ trusted_keys[sig.signator_id] = PublicBytesPem("K2")

\* C17 (remove): remove_trusted_key(s) returns True exactly when s was
\* registered before the call; afterwards get_trusted_key(s) is None and every
\* other signer's entry is as before; removing an absent id changes nothing.
C17_RemoveFrame ==
    [][last'.op = "remove_trusted_key" =>
        /\ last'.ret \in Booleans
        /\ last'.ret = "True" <=> last'.signer_id \in DOMAIN trusted_keys
        /\ GetTrustedKey(trusted_keys', last'.signer_id) = PyNone
        /\ \A x \in SignerIds \ {last'.signer_id} :
                GetTrustedKey(trusted_keys', x) = GetTrustedKey(trusted_keys, x)
        /\ last'.signer_id \notin DOMAIN trusted_keys
                => (trusted_keys' = trusted_keys /\ trusted_order' = trusted_order)]_vars

C17_Witness ==
    /\ last.op = "remove_trusted_key" /\ last.ret = "True"
    /\ DOMAIN trusted_keys = SignerIds \ {last.signer_id}

\* C18 (list): list_trusted_signers returns, each once, the signer ids for
\* which get_trusted_key is not None: an id enters the list with a successful
\* add, leaves it with a successful remove, and no other call changes it.
C18_ListTrustedSigners ==
    /\ [](last.op = "list_trusted_signers" =>
            /\ \A i, j \in 1..Len(last.value) : last.value[i] = last.value[j] => i = j
            /\ {last.value[i] : i \in 1..Len(last.value)}
                = {x \in SignerIds : GetTrustedKey(trusted_keys, x) # PyNone})
    /\ [][LET before == {x \in SignerIds : \E i \in 1..Len(trusted_order) :
                                                ListTrustedSigners(trusted_order)[i] = x}
              after == {x \in SignerIds : \E i \in 1..Len(trusted_order') :
                                                ListTrustedSigners(trusted_order')[i] = x}
          IN  after =
                IF last'.op = "add_trusted_key" /\ last'.ret = "None"
                THEN before \cup {last'.signer_id}
                ELSE IF last'.op = "remove_trusted_key" /\ last'.ret = "True"
                THEN before \ {last'.signer_id}
                ELSE before]_vars

C18_Witness ==
    /\ last.op = "list_trusted_signers"
    /\ last.value = <<999, 42>>

\* C19 (signing without a key), amended: sign_document raises ValueError (the
\* specification's NoKeyError) and returns no artifact when no private key is
\* loaded; with an RSA key loaded it returns the artifact for every document
\* and signator_id; with a loaded key of another scheme it raises TypeError.
C19_SignPrecondition ==
    last.op = "sign_document" =>
        /\ private_key = None => last.ret = "ValueError"
        /\ (private_key # None /\ KeyAlgorithm[private_key] = "RSA") =>
                (last.ret = "Signature" /\ signed # NoSigned /\ sig = signed.artifact)
        /\ (private_key # None /\ KeyAlgorithm[private_key] # "RSA") => last.ret = "TypeError"
        /\ (last.ret # "Signature" /\ signed = NoSigned) => sig = NoSignature

\* C19 as claimed: no key is the only precondition, with any key loaded
\* sign_document returns the artifact.
C19_AsClaimed ==
    last.op = "sign_document" =>
        /\ private_key = None => last.ret = "ValueError"
        /\ private_key # None => last.ret = "Signature"

C19_Witness ==
    /\ last.op = "sign_document" /\ last.ret = "Signature"
    /\ private_key = "K1" /\ doc = Doc1 /\ last.signator_id = 42

\* C20 (artifact binding): the artifact sign_document returns carries the
\* document's id, its canonical JSON, the signator_id given, the PEM of the
\* signing key's public key, and a non-empty signature in hex.
C20_ArtifactBinding ==
    (last.op = "sign_document" /\ last.ret = "Signature") =>
        /\ sig.document_id = doc.id
        /\ sig.json_version = DocumentToCanonicalJson(doc)
        /\ sig.signator_id = last.signator_id
        /\ GetPublicKeyPem(private_key) = Ok(sig.public_key)
        /\ sig.signature # <<>>
        /\ Len(sig.signature) % 2 = 0
        /\ \A i \in 1..Len(sig.signature) : sig.signature[i] \in HexChars
        /\ BytesFromHex(sig.signature).ok

C20_Witness ==
    /\ last.op = "sign_document" /\ last.ret = "Signature"
    /\ private_key = "K2" /\ doc = Doc2 /\ last.signator_id = 999
    /\ sig.signator_id = 999

\* C21 (key persistence round trip): load_private_key on the file
\* save_private_key wrote, with the password it was saved under, succeeds and
\* gives the loading processor the key that was saved, so that
\* get_public_key_pem is the saver's; and an artifact as signed verifies on
\* whichever of the two processors the caller turns to.
C21_KeyPersistence ==
    /\ (/\ last.op = "load_private_key"
        /\ EffectivePassword(last.password) = last.file.encrypted_under)
       => /\ last.ret = "key"
          /\ private_key = key_file.key
          /\ GetPublicKeyPem(private_key) = GetPublicKeyPem(key_file.key)
          /\ other_key = key_file.key => GetPublicKeyPem(private_key) = GetPublicKeyPem(other_key)
    /\ (last.op = "load_private_key" /\ last.ret = "key") => private_key = key_file.key
    /\ (/\ last.op = "verify_signature" /\ Pristine
        /\ key_file # NoFile /\ private_key = key_file.key /\ other_key = key_file.key)
       => last.ret = "True"

C21_Witness ==
    /\ last.op = "verify_signature" /\ Pristine /\ last.ret = "True"
    /\ key_file # NoFile /\ key_file.pem.label = "ENCRYPTED PRIVATE KEY"
    /\ private_key = "K2" /\ other_key = "K2" /\ key_file.key = "K2"
    /\ sig.public_key = PublicBytesPem("K2")


\* Every concurrent call is one of the three registry calls.
RegistryCallsOnly ==
    \A t \in Callers :
        callers[t].op \in {"add_trusted_key", "remove_trusted_key", "get_trusted_key"}

\* C22: when add_trusted_key, remove_trusted_key and get_trusted_key for one
\* signer id run concurrently, the results and the final registry are those
\* of the calls run one after another in some order, and no get returns a
\* key text that does not load.
C22_AtomicRegistryUpdate ==
    /\ (AllReturned /\ RegistryCallsOnly)
        => \E o \in SerialOrders :
                SerialRun(o, callers, started_with, trusted_keys, <<doc, sig>>)
    /\ \A t \in Callers :
        (callers[t].op = "get_trusted_key" /\ callers[t].ret = "str")
            => LoadPemPublicKey(callers[t].value.val).ok


\* C28: a verify_document_signature for an artifact of signer s that runs
\* while another caller removes s returns a boolean and never raises, and it
\* returns True only if the registry held s with the artifact's key text at
\* the moment the key was read.
C28_VerifyRacingRemove ==
    \A t \in Callers :
        (callers[t].op = "verify_document_signature" /\ callers[t].pc = "done")
            => /\ callers[t].ret \in {"True", "False"}
               /\ callers[t].ret = "True"
                    => /\ sig.signator_id \in DOMAIN callers[t].read_from
                       /\ callers[t].read_from[sig.signator_id] = sig.public_key

\* A remove took the entry between the membership test and the lookup, and
\* the verify returned False.
C28_Witness ==
    \E t, u \in Callers :
        /\ callers[t].op = "verify_document_signature" /\ callers[t].pc = "done"
        /\ callers[t].ret = "False"
        /\ callers[t].trusted /\ callers[t].trusted_key_pem = PyNone
        /\ callers[u].op = "remove_trusted_key" /\ callers[u].ret = "True"


\* C23: sign_document and verify_signature leave private_key as it was,
\* verify_document_signature leaves trusted_keys as they were whatever it
\* returns, and no verify call changes what any verify call returns, so the
\* results of verify calls do not depend on their order.
C23_VerifyFrame ==
    [][/\ last'.op \in {"sign_document", "verify_signature"} => private_key' = private_key
       /\ last'.op = "verify_document_signature"
            => trusted_keys' = trusted_keys /\ trusted_order' = trusted_order
       /\ last'.op \in {"verify_signature", "verify_document_signature"}
            => /\ VerifySignature(doc', sig') = VerifySignature(doc, sig)
               /\ VerifyDocumentSignature(trusted_keys', doc', sig')
                    = VerifyDocumentSignature(trusted_keys, doc, sig)
               /\ last'.op = "verify_signature"
                    => last'.ret = Outcome(VerifySignature(doc', sig'))
               /\ last'.op = "verify_document_signature"
                    => last'.ret = Outcome(VerifyDocumentSignature(trusted_keys', doc', sig'))]_vars

\* A verify_document_signature has rejected an artifact whose signer is
\* registered, after a verify_signature accepted or rejected it, with a key
\* loaded in the processor.
C23_Witness ==
    /\ last.op = "verify_document_signature" /\ last.ret = "False"
    /\ sig # NoSignature /\ sig.signator_id \in DOMAIN trusted_keys
    /\ private_key # None


\* C24: signed_at is not covered by the signature: an artifact and the same
\* artifact with any other signed_at get the same result from
\* verify_signature and from verify_document_signature, for every document
\* and registry.
C24_SignedAtNotCovered ==
    last.op \in {"verify_signature", "verify_document_signature"} =>
        \A x \in Datetimes :
            LET b == [sig EXCEPT !.signed_at = x]
            IN  /\ VerifySignature(doc, b) = VerifySignature(doc, sig)
                /\ VerifyDocumentSignature(trusted_keys, doc, b)
                    = VerifyDocumentSignature(trusted_keys, doc, sig)
                /\ last.op = "verify_signature"
                    => last.ret = Outcome(VerifySignature(doc, b))
                /\ last.op = "verify_document_signature"
                    => last.ret = Outcome(VerifyDocumentSignature(trusted_keys, doc, b))

\* The registry accepted an artifact whose signed_at is not the one written
\* at signing.
C24_Witness ==
    /\ last.op = "verify_document_signature" /\ last.ret = "True"
    /\ sig.signed_at # signed.artifact.signed_at
    /\ sig = [signed.artifact EXCEPT !.signed_at = sig.signed_at]


\* C26: verify_signature ignores signator_id: an artifact and the same
\* artifact under any other signator_id get the same result. The registry
\* binds signator_id through its entry alone: the relabelled artifact is
\* trusted exactly when verify_signature accepts the artifact and the
\* artifact's public_key text is registered under the new label.
C26_SignerLabelUnbound ==
    last.op \in {"verify_signature", "verify_document_signature"} =>
        \A s \in SignerIds :
            LET b == [sig EXCEPT !.signator_id = s]
            IN  /\ VerifySignature(doc, b) = VerifySignature(doc, sig)
                /\ last.op = "verify_signature"
                    => last.ret = Outcome(VerifySignature(doc, b))
                /\ VerifyDocumentSignature(trusted_keys, doc, b) = Ok(TRUE)
                    <=> /\ VerifySignature(doc, sig) = Ok(TRUE)
                        /\ s \in DOMAIN trusted_keys
                        /\ trusted_keys[s] = sig.public_key

\* The registry accepted the artifact under a label other than the one it
\* was signed with, the same key being registered under that label, while
\* the signer it was signed with is not registered.
C26_Witness ==
    /\ last.op = "verify_document_signature" /\ last.ret = "True"
    /\ sig.signator_id # signed.artifact.signator_id
    /\ sig = [signed.artifact EXCEPT !.signator_id = sig.signator_id]
    /\ signed.artifact.signator_id \notin DOMAIN trusted_keys


\* C27: in every reachable state every text stored in trusted_keys loads as
\* a public key.
C27_TrustedKeysParse ==
    \A s \in DOMAIN trusted_keys : LoadPemPublicKey(trusted_keys[s]).ok

\* An add of a text that does not load was refused while both signers were
\* registered.
C27_Witness ==
    /\ last.op = "add_trusted_key" /\ last.ret = "ValueError"
    /\ ~LoadPemPublicKey(last.public_key_pem).ok
    /\ DOMAIN trusted_keys = SignerIds


\* C25: after load(), any puts and lock(), a new EncryptedStoreService on the
\* same path with the same master password loads the file, and its
\* list_keys() is the set of keys put and its get(k) the last value put for k.
C25_StoreRoundTrip ==
    /\ [](/\ (last.op = "list_keys" /\ last.ret = "list")
                => {last.value[i] : i \in 1..Len(last.value)}
                        = DOMAIN put_history.of_store[last.store]
          /\ (last.op = "get" /\ last.ret # "RuntimeError")
                => last.value = (IF last.key \in DOMAIN put_history.of_store[last.store]
                                 THEN PyStr(put_history.of_store[last.store][last.key])
                                 ELSE PyNone))
    /\ [][(last'.op = "load" /\ store_file # NoFile
           /\ store_file.token.key[1] = stores[last'.store].master_password)
            => LET s2 == stores'[last'.store]
               IN  /\ last'.ret = "None"
                   /\ s2._opened
                   /\ {StoreListKeys(s2).val[i] : i \in 1..Len(s2._keys)}
                        = DOMAIN put_history.of_file
                   /\ \A k \in DOMAIN put_history.of_file :
                        StoreGet(s2, k) = Ok(PyStr(put_history.of_file[k]))
                   /\ \A k \in StoreKeys \ DOMAIN put_history.of_file :
                        StoreGet(s2, k) = Ok(PyNone)]_vars

\* s put foo twice and alpha and locked; s2, with the same password, loaded
\* the file and its get("foo") returned the value put last.
C25_Witness ==
    /\ last.op = "get" /\ last.store = 2 /\ last.key = S_foo
    /\ last.value = PyStr(S_beta)
    /\ stores[2].master_password = stores[1].master_password
    /\ stores[2]._keys = <<S_foo, S_alpha>>
    /\ ~stores[1]._opened
    /\ store_file # NoFile /\ put_history.of_file = put_history.of_store[2]


\* C29: list_keys, get, put and lock raise RuntimeError and change nothing
\* while the store is not open; the store opens at a successful load() and
\* closes at the next lock(), and at no other step; lock() writes the file,
\* empties the in-memory store, clears the salt and closes, so a second
\* lock() in a row raises; and an open store has its salt set.
C29_OpenLocked ==
    /\ [](\A o \in StoreObjects : stores[o]._opened => stores[o]._salt \in Urandom)
    /\ [][\A o \in StoreObjects :
            LET s == stores[o]
                t == stores'[o]
                called(op) == last'.op = op /\ last'.store = o
            IN  /\ (last'.op \in {"list_keys", "get", "put", "lock"} /\ last'.store = o
                    /\ ~s._opened)
                        => /\ last'.ret = "RuntimeError"
                           /\ t = s /\ store_file' = store_file
                /\ (last'.op \in {"list_keys", "get", "put", "lock"} /\ last'.store = o
                    /\ s._opened)
                        => last'.ret # "RuntimeError"
                /\ (~s._opened /\ t._opened) <=> (called("load") /\ last'.ret = "None" /\ ~s._opened)
                /\ (s._opened /\ ~t._opened) <=> (called("lock") /\ s._opened)
                /\ (called("lock") /\ s._opened)
                        => /\ last'.ret = "None"
                           /\ store_file' # NoFile /\ store_file'.salt = s._salt
                           /\ FernetDecrypt(DeriveKey(s.master_password, s._salt),
                                            store_file'.token)
                                = Ok(JsonDumpsDict(s._store, s._keys))
                           /\ t._store = EmptyStore /\ t._keys = <<>>
                           /\ t._salt = None /\ ~t._opened
                /\ (called("lock") /\ last.op = "lock" /\ last.store = o /\ last.ret = "None")
                        => last'.ret = "RuntimeError"]_vars

\* A lock() right after the lock() that wrote the file raised RuntimeError.
C29_Witness ==
    /\ last.op = "lock" /\ last.ret = "RuntimeError"
    /\ store_file # NoFile
    /\ store_file.token.key[1] = stores[last.store].master_password
    /\ stores[1].master_password # stores[2].master_password
    /\ store_file.token.data # <<>>
    /\ \A o \in StoreObjects : ~stores[o]._opened


\* C30 as claimed: whenever the client holds a document and a signature, the
\* signature's document_id is the document's id.
C30_AsClaimed == BothSet => sig.document_id = doc.id

\* C30: a sign_current_document that signs leaves a signature of the current
\* document; the ids can come apart only at a create_document, which replaces
\* the document and keeps the signature, or at a load, which takes whatever
\* pair the file holds; sign, verify and save never replace the document;
\* and verify_document reports VALID only when the ids agree.
C30_SignatureOfCurrentDocument ==
    /\ [](last.op = "verify_document" /\ last.ret = "VALID"
            => BothSet /\ sig.document_id = doc.id)
    /\ [][/\ (last'.op = "sign_current_document" /\ last'.ret = "signed")
                => /\ doc' = doc /\ sig'.document_id = doc'.id
                   /\ VerifySignature(doc', sig') = Ok(TRUE)
          /\ (C30_AsClaimed /\ ~C30_AsClaimed')
                => \/ last'.op = "create_document" /\ sig' = sig /\ sig # NoSignature
                   \/ last'.op = "load_document_signature" /\ doc' = disk.doc /\ sig' = disk.sig
          /\ last'.op \in {"sign_current_document", "verify_document", "save_document_signature"}
                => doc' = doc
          /\ last'.op \in {"create_document", "verify_document", "save_document_signature"}
                => sig' = sig]_vars

\* The client created a document, signed it and created another one: it
\* holds the new document and the signature of the old one.
C30_Witness ==
    /\ last.op = "create_document" /\ last.ret = "created"
    /\ BothSet /\ sig.document_id # doc.id

====
